---- MODULE Spec2Model ----
(***************************************************************************)
(* The BOSHDeployment reconciler of cf-operator                            *)
(* (pkg/kube/controllers/boshdeployment, ReconcileBOSHDeployment).         *)
(*                                                                         *)
(* One deployment resource is reconciled by one pipeline at a time (the    *)
(* dispatcher serialises per key).  A pass is a sequence of blocking calls *)
(* against the cluster store and the collaborators; every call is one      *)
(* action, and pc is the position of the pass in Reconcile.                *)
(***************************************************************************)
EXTENDS Integers, Sequences, FiniteSets, TLC

(***************************************************************************)
(* Bounds of the model.                                                    *)
(***************************************************************************)
\* the clock runs over 0..MaxTime
MaxTime == 2
\* the two configured durations range over 1..MaxDuration
MaxDuration == 2
\* at most MaxPods pods in the namespace
MaxPods == 2
\* the deployment resource is edited up to generation MaxGeneration
MaxGeneration == 2

(***************************************************************************)
(* Names.                                                                  *)
(***************************************************************************)
DeploymentName == "nats-deployment"
OtherDeployment == "other-deployment"
Namespace == "default"
\* request.NamespacedName, as printed by %s
NamespacedName == Namespace \o "/" \o DeploymentName

\* consumer names a manifest may leave unsatisfied, and the names a secret's
\* link-provider descriptor may carry
Providers == {"A", "B", "nats-provider"}
\* provider types of a descriptor; "" is the empty type
ProviderTypes == {"", "nats"}
\* names of the secrets and services the namespace may hold besides the
\* derived objects
SecretNames == <<"s1", "s2">>
ServiceNames == <<"svc1", "svc2">>
\* the selector of a service is the label its pods carry
Selectors == <<"app=one", "app=two">>
\* names of the explicit variables a manifest may declare
VariableNames == <<"var-password">>
\* the types a declared variable may have; a deployment declares the first and
\* may be edited to the second
VariableTypes == <<"password", "certificate">>
\* the secrets of the namespaces on which the loop over the secrets is checked
LinkSecretNames == SecretNames \o <<"s3", "s4">>

\* a nil *metav1.Time is <<>>, a set one is <<t>>
NilTime == <<>>

\* the text of an error the cluster store returns (opaque to the reconciler)
ApiError == "cluster store error"
\* the text of an error a collaborator returns
CollabError == "collaborator error"

(***************************************************************************)
(* Sequences helpers.                                                      *)
(***************************************************************************)
Range(s) == {s[i] : i \in DOMAIN s}

\* all orders (sequences without repetition) of the finite set S
Orders(S) == {o \in [1..Cardinality(S) -> S] : Range(o) = S}

\* strings.Join(elems, sep)
RECURSIVE Join(_, _)
Join(elems, sep) ==
    IF elems = <<>> THEN ""
    ELSE IF Len(elems) = 1 THEN elems[1]
    ELSE elems[1] \o sep \o Join(Tail(elems), sep)

(***************************************************************************)
(* Go zero values and maps.                                                *)
(***************************************************************************)
\* an empty Go map
EmptyMap == <<>>

\* m[k] = v on a Go map
MapPut(m, k, v) == [x \in (DOMAIN m) \cup {k} |-> IF x = k THEN v ELSE m[x]]

\* the annotation of an object that is absent is <<>>, a present one is <<v>>
NoAnnotation == <<>>

(***************************************************************************)
(* Meltdown guard (quarks-utils meltdown.NewWindow(...).Contains).         *)
(***************************************************************************)
\* whether t lies in [last, last + duration); a nil last gives an empty window
WindowContains(duration, last, t) ==
    /\ last # NilTime
    /\ last[1] <= t
    /\ t < last[1] + duration

(***************************************************************************)
(* Link resolver: the pure parts of listLinkInfos.                         *)
(***************************************************************************)
\* newLinkProvider: parse the link-provider descriptor of a secret
newLinkProvider(ann) ==
    IF ann.valid
    THEN [err |-> FALSE, Name |-> ann.name, ProviderType |-> ann.ptype]
    ELSE [err |-> TRUE, Name |-> "", ProviderType |-> ""]

\* boshdns.GetClusterDomain()
ClusterDomain == "cluster.local"

\* the zero QuarksLink but for its type
QuarksLinkOfType(t) == [Type |-> t, Address |-> "", Instances |-> <<>>]

\* whether secret s carries the deployment-name annotation of this deployment
SecretOfDeployment(s) == s.dep # NoAnnotation /\ s.dep[1] = DeploymentName

\* faulty variant: a secret of the deployment is recorded whether or not the
\* provider it names is missing
SecretStep_AnyProvider(acc, s) ==
    IF ~SecretOfDeployment(s) THEN acc
    ELSE LET linkProvider == newLinkProvider(s.ann) IN
         IF linkProvider.err
         THEN [acc EXCEPT !.err =
                  "failed to parse link JSON for  '" \o DeploymentName
                  \o "': " \o "invalid character"]
         ELSE IF /\ linkProvider.Name \in DOMAIN acc.missingProviders
                 /\ acc.missingProviders[linkProvider.Name]
         THEN [acc EXCEPT !.err =
                  "duplicated secrets of provider: " \o linkProvider.Name]
         ELSE [acc EXCEPT
                  !.linkInfos = Append(@, [SecretName |-> s.name,
                                           ProviderName |-> linkProvider.Name,
                                           ProviderType |-> linkProvider.ProviderType]),
                  !.quarksLinks =
                      IF linkProvider.ProviderType # ""
                      THEN MapPut(@, s.name, QuarksLinkOfType(linkProvider.ProviderType))
                      ELSE @,
                  !.missingProviders =
                      IF linkProvider.Name \in DOMAIN @
                      THEN [@ EXCEPT ![linkProvider.Name] = TRUE] ELSE @]

\* faulty variant: a provider matched a second time is recorded again, the
\* later secret winning
SecretStep_NoDuplicateCheck(acc, s) ==
    IF ~SecretOfDeployment(s) THEN acc
    ELSE LET linkProvider == newLinkProvider(s.ann) IN
         IF linkProvider.err
         THEN [acc EXCEPT !.err =
                  "failed to parse link JSON for  '" \o DeploymentName
                  \o "': " \o "invalid character"]
         ELSE IF linkProvider.Name \notin DOMAIN acc.missingProviders
         THEN acc
         ELSE [acc EXCEPT
                  !.linkInfos = Append(@, [SecretName |-> s.name,
                                           ProviderName |-> linkProvider.Name,
                                           ProviderType |-> linkProvider.ProviderType]),
                  !.quarksLinks =
                      IF linkProvider.ProviderType # ""
                      THEN MapPut(@, s.name, QuarksLinkOfType(linkProvider.ProviderType))
                      ELSE @,
                  !.missingProviders[linkProvider.Name] = TRUE]

\* one iteration of the loop over secrets.Items; acc holds missingProviders,
\* linkInfos, quarksLinks and the error that ended the loop ("" for none)
SecretStep(acc, s) ==
    IF ~SecretOfDeployment(s) THEN acc
    ELSE LET linkProvider == newLinkProvider(s.ann) IN
         IF linkProvider.err
         THEN [acc EXCEPT !.err =
                  "failed to parse link JSON for  '" \o DeploymentName
                  \o "': " \o "invalid character"]
         ELSE IF linkProvider.Name \notin DOMAIN acc.missingProviders
         THEN acc
         ELSE IF acc.missingProviders[linkProvider.Name]
         THEN [acc EXCEPT !.err =
                  "duplicated secrets of provider: " \o linkProvider.Name]
         ELSE [acc EXCEPT
                  !.linkInfos = Append(@, [SecretName |-> s.name,
                                           ProviderName |-> linkProvider.Name,
                                           ProviderType |-> linkProvider.ProviderType]),
                  !.quarksLinks =
                      IF linkProvider.ProviderType # ""
                      THEN MapPut(@, s.name, QuarksLinkOfType(linkProvider.ProviderType))
                      ELSE @,
                  !.missingProviders[linkProvider.Name] = TRUE]

\* the loop over secrets.Items, which returns at the first error
RECURSIVE SecretLoop(_, _)
SecretLoop(acc, items) ==
    IF items = <<>> \/ acc.err # "" THEN acc
    ELSE SecretLoop(SecretStep(acc, Head(items)), Tail(items))

\* whether service svc carries the deployment-name annotation of this deployment
ServiceOfDeployment(svc) == svc.dep # NoAnnotation /\ svc.dep[1] = DeploymentName

\* the DNS address of a service record
DNSRecord(svcName) == svcName \o "." \o Namespace \o ".svc." \o ClusterDomain

\* faulty variant: a second service of a provider replaces the record of the
\* first
ServiceStep_LastWins(acc, svc) ==
    IF ~ServiceOfDeployment(svc) \/ svc.provider = NoAnnotation THEN acc
    ELSE [acc EXCEPT !.svcRecords =
             MapPut(@, svc.provider[1], [selector |-> svc.selector,
                                         dnsRecord |-> DNSRecord(svc.name)])]

\* one iteration of the loop of getServiceRecords
ServiceStep(acc, svc) ==
    IF ~ServiceOfDeployment(svc) \/ svc.provider = NoAnnotation THEN acc
    ELSE LET providerName == svc.provider[1] IN
         IF providerName \in DOMAIN acc.svcRecords
         THEN [acc EXCEPT !.err = "duplicated services of provider: " \o providerName]
         ELSE [acc EXCEPT !.svcRecords =
                  MapPut(@, providerName, [selector |-> svc.selector,
                                           dnsRecord |-> DNSRecord(svc.name)])]

\* getServiceRecords: the service records by provider name, or the error
RECURSIVE getServiceRecords(_, _)
getServiceRecords(acc, svcs) ==
    IF svcs = <<>> \/ acc.err # "" THEN acc
    ELSE getServiceRecords(ServiceStep(acc, Head(svcs)), Tail(svcs))

\* the pods of the namespace matching a selector, in listing order
MatchingLabels(podItems, selector) ==
    SelectSeq(podItems, LAMBDA p : p.label = selector)

\* the index of the first pod without an address, 0 when every pod has one
FirstEmptyIP(ps) ==
    IF \E i \in DOMAIN ps : ps[i].ip = ""
    THEN CHOOSE i \in DOMAIN ps : ps[i].ip = "" /\ \A j \in 1..(i - 1) : ps[j].ip # ""
    ELSE 0

\* faulty variant: every instance is marked as the bootstrap instance
JobInstances_AllBootstrap(qName, ps) ==
    [i \in DOMAIN ps |-> [Name |-> qName,
                          ID |-> ps[i].uid,
                          Index |-> i - 1,
                          Address |-> ps[i].ip,
                          Bootstrap |-> TRUE]]

\* the job instances built from the listed pods
JobInstances(qName, ps) ==
    [i \in DOMAIN ps |-> [Name |-> qName,
                          ID |-> ps[i].uid,
                          Index |-> i - 1,
                          Address |-> ps[i].ip,
                          Bootstrap |-> (i - 1 = 0)]]

\* faulty variant: every missing provider of the manifest is reported, found
\* or not
NotFound_EveryKey(missingProviders) == DOMAIN missingProviders

\* the providers still marked not found
NotFound(missingProviders) ==
    {key \in DOMAIN missingProviders : ~missingProviders[key]}

\* the error for the providers no secret matched, listed in the order ps
MissingError(ps) == "missing link secrets for providers: " \o Join(ps, ", ")

\* manifest.Properties["quarks_links"] = quarksLinks, on a nil map too
InjectLinks(properties, quarksLinks) ==
    [nil |-> FALSE, map |-> MapPut(properties.map, "quarks_links", quarksLinks)]

(***************************************************************************)
(* The content of the namespace and the collaborators' outputs.            *)
(***************************************************************************)
\* the link-provider descriptors a secret annotation may hold: one that does
\* not parse, or a name and a type
Descriptors(names) ==
    {[valid |-> FALSE, name |-> "", ptype |-> ""]}
    \cup {[valid |-> TRUE, name |-> n, ptype |-> t] : n \in names, t \in ProviderTypes}

\* what the secret named sn may be: a secret exported to this deployment with
\* one of the descriptors, or one exported to another deployment
SecretKinds(sn, names) ==
    {[name |-> sn, dep |-> <<DeploymentName>>, ann |-> a] : a \in Descriptors(names)}
    \cup {[name |-> sn, dep |-> <<OtherDeployment>>,
           ann |-> [valid |-> TRUE, name |-> "nats-provider", ptype |-> "nats"]]}

\* the listings of the secrets named sns, in that order
RECURSIVE SecretLists(_, _)
SecretLists(sns, names) ==
    IF sns = <<>> THEN {<<>>}
    ELSE {Append(l, x) : l \in SecretLists(SubSeq(sns, 1, Len(sns) - 1), names),
                         x \in SecretKinds(sns[Len(sns)], names)}

\* the listings of the first secrets named by sns, none to all of them
SecretListsUpTo(sns, names) ==
    UNION {SecretLists(SubSeq(sns, 1, k), names) : k \in 0..Len(sns)}

\* what the j-th service of the namespace may be: a service of this deployment
\* with or without a provider-name annotation, or one of another deployment
ServiceKinds(j, provs) ==
    {[name |-> ServiceNames[j], selector |-> Selectors[j],
      dep |-> <<DeploymentName>>, provider |-> pr] :
        pr \in {NoAnnotation} \cup {<<n>> : n \in provs}}
    \cup {[name |-> ServiceNames[j], selector |-> Selectors[j],
           dep |-> <<OtherDeployment>>, provider |-> <<SecretNames[1]>>]}

\* the listings of k services
RECURSIVE ServiceLists(_, _)
ServiceLists(k, provs) ==
    IF k = 0 THEN {<<>>}
    ELSE {Append(l, x) : l \in ServiceLists(k - 1, provs), x \in ServiceKinds(k, provs)}

\* what the k-th pod of the namespace may be; a pod not yet scheduled has no IP
PodKinds(k, labels) ==
    {[name |-> "pod-" \o ToString(k - 1), uid |-> "uid-" \o ToString(k - 1),
      label |-> l, ip |-> ip] :
        l \in labels, ip \in {"", "10.0.0." \o ToString(k)}}

\* the listings of k pods
RECURSIVE PodLists(_, _)
PodLists(k, labels) ==
    IF k = 0 THEN {<<>>}
    ELSE {Append(l, x) : l \in PodLists(k - 1, labels), x \in PodKinds(k, labels)}

\* a bdm.Variable of the manifest
Variable(n, t) == [Name |-> n, Type |-> t]

\* the first k explicit variables, as first declared
DeclaredVariables(k) == [i \in 1..k |-> Variable(VariableNames[i], VariableTypes[1])]

\* manifest.Properties as the manifest resolver returns it: a nil map or a map
\* of the deployment's own properties
NilProperties == [nil |-> TRUE, map |-> EmptyMap]
ResolvedProperties == {NilProperties, [nil |-> FALSE, map |-> MapPut(EmptyMap, "nats", "cfg")]}

\* the manifests the resolver may return: properties, explicit variables and
\* the consumers no instance group of the manifest provides
Manifests(missingSets) ==
    [Properties : ResolvedProperties,
     Variables : {DeclaredVariables(k) : k \in 0..Len(VariableNames)},
     missing : missingSets]

(***************************************************************************)
(* State.                                                                  *)
(***************************************************************************)
VARIABLES
    cfg,          \* r.config: MeltdownDuration, MeltdownRequeueAfter
    now,          \* the wall clock
    bdpl,         \* the stored BOSHDeployment: exists, LastReconcile, Generation
    resolved,     \* the manifest r.withops.Manifest returns for the deployment
    secrets,      \* the secrets of the namespace that other deployments export
    services,     \* the services of the namespace
    pods,         \* the pods of the namespace
    store,        \* the derived objects in the cluster, by name
    pc,           \* position of the pass in Reconcile; "idle" between passes
    instance,     \* the fetched copy of the BOSHDeployment
    manifest,     \* the in-memory manifest of the pass
    secretList,   \* secrets.Items as listed
    serviceList,  \* services.Items as listed
    link,         \* missingProviders, linkInfos, quarksLinks of listLinkInfos
    svcRecords,   \* serviceRecords of listLinkInfos
    pending,      \* the keys of quarksLinks the range loop has not visited
    variables,    \* the QuarksSecrets createQuarksSecrets has not visited
    result,       \* what the last pass returned
    calls,        \* the cluster store calls of the pass, in order
    pre,          \* the stored state when the pass began
    ctx           \* the context of the pass: whether its deadline has expired

clusterVars == <<cfg, resolved, secrets, services, pods>>
linkVars == <<secretList, serviceList, link, svcRecords, pending>>
vars == <<cfg, now, bdpl, resolved, secrets, services, pods, store, pc, instance,
          manifest, secretList, serviceList, link, svcRecords, pending, variables,
          result, calls, pre, ctx>>

(***************************************************************************)
(* Zero values of the pass, results and derived objects.                   *)
(***************************************************************************)
NoInstance == [LastReconcile |-> NilTime, Generation |-> 0]
NoManifest == [Properties |-> NilProperties, Variables |-> <<>>, missing |-> {}]
NoLink == [missingProviders |-> EmptyMap, linkInfos |-> <<>>,
           quarksLinks |-> EmptyMap, err |-> ""]

\* context.WithTimeout(r.ctx, r.config.CtxTimeOut): a context whose deadline
\* lies ahead
WithTimeout == [expired |-> FALSE]

\* no pass has returned yet
ResultNone == [returned |-> FALSE, Requeue |-> FALSE, RequeueAfter |-> 0,
               err |-> FALSE, event |-> "", msg |-> ""]
\* reconcile.Result{}, nil
ResultDone == [ResultNone EXCEPT !.returned = TRUE]
\* reconcile.Result{RequeueAfter: d}, nil
ResultRequeueAfter(d) == [ResultDone EXCEPT !.RequeueAfter = d]
\* reconcile.Result{}, log.WithEvent(instance, event).Errorf(...)
ResultError(event, msg) == [ResultDone EXCEPT !.err = TRUE, !.event = event, !.msg = msg]

\* one call against the cluster store and how it ended
Call(op, obj, res) == [op |-> op, obj |-> obj, res |-> res]

\* names.DeploymentSecretName(DeploymentSecretTypeManifestWithOps, name, "")
ManifestSecretName == DeploymentName \o ".with-ops"
\* the name of the QuarksSecret of an explicit variable
VariableSecretName(v) == DeploymentName \o ".var-" \o v
\* the name of the secret generated for the QuarksSecret named name
GeneratedSecretName(name) == name \o ".generated"
\* the names of the two QuarksJobs
VariableInterpolationJobName == "dm-" \o DeploymentName
InstanceGroupManifestJobName == "ig-" \o DeploymentName

\* the kinds of the objects in the store; the manifest secret is the Secret
\* labelled with the deployment secret type "with-ops"
KindManifestSecret == "Secret/with-ops"
KindQuarksSecret == "QuarksSecret"
KindQuarksJob == "QuarksJob"
\* the secret the variable-generation controller makes for a QuarksSecret
KindGeneratedSecret == "Secret/generated"

\* a derived object: its kind, its owner reference, its content and, for a
\* QuarksSecret, Status.Generated
Object(kind, owner, data) ==
    [kind |-> kind, owner |-> owner, data |-> data, generated |-> FALSE]

\* controllerutil.CreateOrUpdate of object obj under name key: the operation
\* result and the store after it.  An update keeps the status of the object.
CreateOrUpdate(st, key, obj) ==
    IF key \notin DOMAIN st
    THEN [op |-> "created", store |-> MapPut(st, key, obj)]
    ELSE IF st[key].owner = obj.owner /\ st[key].data = obj.data
    THEN [op |-> "unchanged", store |-> st]
    ELSE [op |-> "updated",
          store |-> [st EXCEPT ![key] = [obj EXCEPT !.generated = st[key].generated]]]

\* the mutating calls among cs
IsMutation(c) ==
    \/ c.op = "CreateOrUpdate" /\ c.res \in {"created", "updated"}
    \/ c.op = "StatusUpdate" /\ c.res = "ok"

(***************************************************************************)
(* Initial states.                                                         *)
(***************************************************************************)
\* the state of the pass between passes
PassIdle ==
    /\ pc = "idle"
    /\ instance = NoInstance
    /\ manifest = NoManifest
    /\ secretList = <<>>
    /\ serviceList = <<>>
    /\ link = NoLink
    /\ svcRecords = EmptyMap
    /\ pending = {}
    /\ variables = <<>>
    /\ result = ResultNone
    /\ calls = <<>>
    /\ pre = [store |-> EmptyMap, LastReconcile |-> NilTime]
    /\ ctx = WithTimeout

\* a new deployment, at time start, in a namespace holding the given objects
InitWith(durations, start, manifests, secretLists, serviceLists, podLists) ==
    /\ cfg \in [MeltdownDuration : durations, MeltdownRequeueAfter : durations]
    /\ now = start
    /\ bdpl = [exists |-> TRUE, LastReconcile |-> NilTime, Generation |-> 1]
    /\ resolved \in manifests
    /\ secrets \in secretLists
    /\ services \in serviceLists
    /\ pods \in podLists
    /\ store = EmptyMap
    /\ PassIdle

\* a namespace in which the one consumer "nats-provider" resolves: secret s1
\* exports it with a type, service svc1 serves s1, one pod backs the service
BaseSecrets ==
    <<[name |-> SecretNames[1], dep |-> <<DeploymentName>>,
       ann |-> [valid |-> TRUE, name |-> "nats-provider", ptype |-> "nats"]]>>
BaseServices ==
    <<[name |-> ServiceNames[1], selector |-> Selectors[1],
       dep |-> <<DeploymentName>>, provider |-> <<SecretNames[1]>>]>>
BasePods == CHOOSE l \in PodLists(1, {Selectors[1]}) : l[1].ip # ""

\* The meltdown guard reads the configuration and the clock and nothing of the
\* namespace; the link resolver reads the namespace and neither the clock nor
\* the configuration.  The initial states vary the one with the other fixed:
\* every configuration and manifest in the base namespace from time 0, and
\* every namespace at the last instant of the clock under the widest window.
InitMeltdown ==
    InitWith(1..MaxDuration, 0, Manifests(SUBSET {"nats-provider"}),
             {BaseSecrets}, {BaseServices}, {BasePods})

InitNamespace ==
    InitWith({MaxDuration}, MaxTime,
             {m \in Manifests({{"nats-provider"}}) :
                 ~m.Properties.nil /\ m.Variables = DeclaredVariables(Len(VariableNames))},
             SecretListsUpTo(SecretNames, {"A", "nats-provider"}),
             UNION {ServiceLists(k, {SecretNames[1]}) : k \in 0..Len(ServiceNames)},
             UNION {PodLists(k, {Selectors[1]}) : k \in 0..MaxPods})

Init == InitMeltdown \/ InitNamespace

(***************************************************************************)
(* Reconcile, one action per call.                                         *)
(***************************************************************************)
\* return res from Reconcile
Return(res) ==
    /\ pc' = "idle"
    /\ result' = res

\* a call against the cluster store is recorded
Record(op, obj, res) == calls' = Append(calls, Call(op, obj, res))

\* the dispatcher invokes Reconcile for the deployment's key
Dispatch ==
    /\ pc = "idle"
    /\ pc' = "get"
    /\ instance' = NoInstance
    /\ manifest' = NoManifest
    /\ secretList' = <<>>
    /\ serviceList' = <<>>
    /\ link' = NoLink
    /\ svcRecords' = EmptyMap
    /\ pending' = {}
    /\ variables' = <<>>
    /\ result' = ResultNone
    /\ calls' = <<>>
    /\ pre' = [store |-> store, LastReconcile |-> bdpl.LastReconcile]
    /\ ctx' = WithTimeout
    /\ UNCHANGED <<clusterVars, now, bdpl, store>>

\* faulty variant: a deployment that is not found is reported like any other
\* failure of the fetch
GetInstance_NotFoundIsError ==
    /\ pc = "get"
    /\ \/ /\ Record("Get", DeploymentName, IF bdpl.exists THEN "error" ELSE "notfound")
          /\ Return(ResultError("GetBOSHDeploymentError",
                 "failed to get BOSHDeployment '" \o NamespacedName \o "': " \o ApiError))
          /\ UNCHANGED instance
       \/ /\ bdpl.exists
          /\ Record("Get", DeploymentName, "ok")
          /\ instance' = [LastReconcile |-> bdpl.LastReconcile,
                          Generation |-> bdpl.Generation]
          /\ pc' = "meltdown"
          /\ UNCHANGED result
    /\ UNCHANGED <<clusterVars, linkVars, now, bdpl, store, manifest, variables, pre, ctx>>

\* r.client.Get of the BOSHDeployment
GetInstance ==
    /\ pc = "get"
    /\ \/ /\ ~bdpl.exists
          /\ Record("Get", DeploymentName, "notfound")
          /\ Return(ResultDone)
          /\ UNCHANGED instance
       \/ /\ Record("Get", DeploymentName, "error")
          /\ Return(ResultError("GetBOSHDeploymentError",
                 "failed to get BOSHDeployment '" \o NamespacedName \o "': " \o ApiError))
          /\ UNCHANGED instance
       \/ /\ bdpl.exists
          /\ Record("Get", DeploymentName, "ok")
          /\ instance' = [LastReconcile |-> bdpl.LastReconcile,
                          Generation |-> bdpl.Generation]
          /\ pc' = "meltdown"
          /\ UNCHANGED result
    /\ UNCHANGED <<clusterVars, linkVars, now, bdpl, store, manifest, variables, pre, ctx>>

\* faulty variant: the guard is never consulted and every pass runs the pipeline
MeltdownCheck_NoGuard ==
    /\ pc = "meltdown"
    /\ pc' = "resolveManifest"
    /\ UNCHANGED <<clusterVars, linkVars, now, bdpl, store, instance, manifest,
                   variables, result, calls, pre, ctx>>

\* faulty variant: the pass is requeued after what is left of the window
MeltdownCheck_RemainingWindow ==
    /\ pc = "meltdown"
    /\ IF WindowContains(cfg.MeltdownDuration, instance.LastReconcile, now)
       THEN Return(ResultRequeueAfter(
                cfg.MeltdownDuration - (now - instance.LastReconcile[1])))
       ELSE pc' = "resolveManifest" /\ UNCHANGED result
    /\ UNCHANGED <<clusterVars, linkVars, now, bdpl, store, instance, manifest,
                   variables, calls, pre, ctx>>

\* the meltdown guard
MeltdownCheck ==
    /\ pc = "meltdown"
    /\ IF WindowContains(cfg.MeltdownDuration, instance.LastReconcile, now)
       THEN Return(ResultRequeueAfter(cfg.MeltdownRequeueAfter))
       ELSE pc' = "resolveManifest" /\ UNCHANGED result
    /\ UNCHANGED <<clusterVars, linkVars, now, bdpl, store, instance, manifest,
                   variables, calls, pre, ctx>>

\* r.resolveManifest
ResolveManifest ==
    /\ pc = "resolveManifest"
    /\ \/ /\ Return(ResultError("WithOpsManifestError",
                 "failed to get with-ops manifest for BOSHDeployment '"
                 \o NamespacedName \o "': " \o "Error resolving the manifest "
                 \o DeploymentName \o ": " \o CollabError))
          /\ UNCHANGED manifest
       \/ /\ manifest' = resolved
          /\ pc' = "listLinkInfos"
          /\ UNCHANGED result
    /\ UNCHANGED <<clusterVars, linkVars, now, bdpl, store, instance, variables,
                   calls, pre, ctx>>

\* what Reconcile returns when listLinkInfos failed with cause
LinkError(cause) ==
    ResultError("InstanceGroupManifestError",
        "failed to list quarks-link secrets for BOSHDeployment '"
        \o NamespacedName \o "': " \o cause)

\* faulty variant: a failure of listLinkInfos is logged and Reconcile reports
\* success
LinkFail_ReportsSuccess(cause) == Return(ResultDone)

\* listLinkInfos failed with cause: Reconcile returns the wrapped error
LinkFail(cause) == Return(LinkError(cause))

\* faulty variant: the namespace is listed whether or not a provider is missing
ListLinkInfosBegin_AlwaysLists ==
    /\ pc = "listLinkInfos"
    /\ link' = [NoLink EXCEPT !.missingProviders = [p \in manifest.missing |-> FALSE]]
    /\ pc' = "listSecrets"
    /\ UNCHANGED <<clusterVars, now, bdpl, store, instance, manifest, secretList,
                   serviceList, svcRecords, pending, variables, result, calls, pre, ctx>>

\* listLinkInfos up to the test of len(missingProviders)
ListLinkInfosBegin ==
    /\ pc = "listLinkInfos"
    /\ link' = [NoLink EXCEPT !.missingProviders = [p \in manifest.missing |-> FALSE]]
    /\ pc' = IF manifest.missing # {} THEN "listSecrets" ELSE "listPods"
    /\ UNCHANGED <<clusterVars, now, bdpl, store, instance, manifest, secretList,
                   serviceList, svcRecords, pending, variables, result, calls, pre, ctx>>

\* r.client.List of the secrets of the namespace
ListSecrets ==
    /\ pc = "listSecrets"
    /\ \/ /\ Record("List", "secrets", "error")
          /\ LinkFail("listing secrets for link in deployment '" \o DeploymentName
                      \o "':: " \o ApiError)
          /\ UNCHANGED secretList
       \/ /\ Record("List", "secrets", "ok")
          /\ secretList' = secrets
          /\ pc' = "listServices"
          /\ UNCHANGED result
    /\ UNCHANGED <<clusterVars, now, bdpl, store, instance, manifest, serviceList,
                   link, svcRecords, pending, variables, pre, ctx>>

\* r.client.List of the services of the namespace
ListServices ==
    /\ pc = "listServices"
    /\ \/ /\ Record("List", "services", "error")
          /\ LinkFail("listing services for link in deployment '" \o DeploymentName
                      \o "':: " \o ApiError)
          /\ UNCHANGED serviceList
       \/ /\ Record("List", "services", "ok")
          /\ serviceList' = services
          /\ pc' = "matchSecrets"
          /\ UNCHANGED result
    /\ UNCHANGED <<clusterVars, now, bdpl, store, instance, manifest, secretList,
                   link, svcRecords, pending, variables, pre, ctx>>

\* faulty variant: the links are written to the properties as soon as the
\* secrets are matched
MatchSecrets_InjectEarly ==
    /\ pc = "matchSecrets"
    /\ LET acc == SecretLoop(link, secretList)
           recs == getServiceRecords([svcRecords |-> EmptyMap, err |-> ""], serviceList)
       IN  /\ link' = acc
           /\ manifest' = IF DOMAIN acc.quarksLinks # {}
                           THEN [manifest EXCEPT !.Properties =
                                    InjectLinks(@, acc.quarksLinks)]
                           ELSE manifest
           /\ IF acc.err # ""
              THEN LinkFail(acc.err) /\ UNCHANGED <<svcRecords, pending>>
              ELSE IF recs.err # ""
              THEN /\ LinkFail("failed to get link services for '" \o DeploymentName
                               \o "': " \o recs.err)
                   /\ UNCHANGED <<svcRecords, pending>>
              ELSE /\ svcRecords' = recs.svcRecords
                   /\ pending' = DOMAIN acc.quarksLinks
                   /\ pc' = "listPods"
                   /\ UNCHANGED result
    /\ UNCHANGED <<clusterVars, now, bdpl, store, instance, secretList,
                   serviceList, variables, calls, pre, ctx>>

\* the loop over the listed secrets, then getServiceRecords
MatchSecrets ==
    /\ pc = "matchSecrets"
    /\ LET acc == SecretLoop(link, secretList)
           recs == getServiceRecords([svcRecords |-> EmptyMap, err |-> ""], serviceList)
       IN  /\ link' = acc
           /\ IF acc.err # ""
              THEN LinkFail(acc.err) /\ UNCHANGED <<svcRecords, pending>>
              ELSE IF recs.err # ""
              THEN /\ LinkFail("failed to get link services for '" \o DeploymentName
                               \o "': " \o recs.err)
                   /\ UNCHANGED <<svcRecords, pending>>
              ELSE /\ svcRecords' = recs.svcRecords
                   /\ pending' = DOMAIN acc.quarksLinks
                   /\ pc' = "listPods"
                   /\ UNCHANGED result
    /\ UNCHANGED <<clusterVars, now, bdpl, store, instance, manifest, secretList,
                   serviceList, variables, calls, pre, ctx>>

\* faulty variant: the listed pods are taken as they are, none or without
\* an address
ListPods_NoPodChecks ==
    /\ pc = "listPods"
    /\ \E qName \in pending :
         IF qName \notin DOMAIN svcRecords
         THEN /\ pending' = pending \ {qName}
              /\ UNCHANGED <<pc, link, result, calls>>
         ELSE LET svcRecord == svcRecords[qName]
                  items == MatchingLabels(pods, svcRecord.selector)
                  wrap == "Failed to get link pods for '" \o DeploymentName \o "': "
              IN  \/ /\ Record("List", "pods", "error")
                     /\ LinkFail(wrap \o "listing pods from selector '"
                                 \o svcRecord.selector \o "':: " \o ApiError)
                     /\ UNCHANGED <<link, pending>>
                  \/ /\ Record("List", "pods", "ok")
                     /\ IF FALSE
                        THEN /\ LinkFail(wrap \o "got an empty list of pods")
                             /\ UNCHANGED <<link, pending>>
                        ELSE /\ link' = [link EXCEPT !.quarksLinks[qName] =
                                            [Type |-> @.Type,
                                             Address |-> svcRecord.dnsRecord,
                                             Instances |-> JobInstances(qName, items)]]
                             /\ pending' = pending \ {qName}
                             /\ UNCHANGED <<pc, result>>
    /\ UNCHANGED <<clusterVars, now, bdpl, store, instance, manifest, secretList,
                   serviceList, svcRecords, variables, pre, ctx>>

\* faulty variant: a link without a service record fails the resolution
ListPods_ServiceRequired ==
    /\ pc = "listPods"
    /\ \E qName \in pending :
         IF qName \notin DOMAIN svcRecords
         THEN /\ LinkFail("Failed to get link service for '" \o qName \o "'")
              /\ UNCHANGED <<link, pending, calls>>
         ELSE LET svcRecord == svcRecords[qName]
                  items == MatchingLabels(pods, svcRecord.selector)
                  wrap == "Failed to get link pods for '" \o DeploymentName \o "': "
              IN  \/ /\ Record("List", "pods", "error")
                     /\ LinkFail(wrap \o "listing pods from selector '"
                                 \o svcRecord.selector \o "':: " \o ApiError)
                     /\ UNCHANGED <<link, pending>>
                  \/ /\ Record("List", "pods", "ok")
                     /\ IF items = <<>>
                        THEN /\ LinkFail(wrap \o "got an empty list of pods")
                             /\ UNCHANGED <<link, pending>>
                        ELSE IF FirstEmptyIP(items) # 0
                        THEN /\ LinkFail("empty ip of kube native component: '"
                                         \o Namespace \o "/"
                                         \o items[FirstEmptyIP(items)].name \o "'")
                             /\ UNCHANGED <<link, pending>>
                        ELSE /\ link' = [link EXCEPT !.quarksLinks[qName] =
                                            [Type |-> @.Type,
                                             Address |-> svcRecord.dnsRecord,
                                             Instances |-> JobInstances(qName, items)]]
                             /\ pending' = pending \ {qName}
                             /\ UNCHANGED <<pc, result>>
    /\ UNCHANGED <<clusterVars, now, bdpl, store, instance, manifest, secretList,
                   serviceList, svcRecords, variables, pre, ctx>>

\* one iteration of the range over quarksLinks (Go visits the keys in any order)
ListPods ==
    /\ pc = "listPods"
    /\ \E qName \in pending :
         IF qName \notin DOMAIN svcRecords
         THEN /\ pending' = pending \ {qName}
              /\ UNCHANGED <<pc, link, result, calls>>
         ELSE LET svcRecord == svcRecords[qName]
                  items == MatchingLabels(pods, svcRecord.selector)
                  wrap == "Failed to get link pods for '" \o DeploymentName \o "': "
              IN  \/ /\ Record("List", "pods", "error")
                     /\ LinkFail(wrap \o "listing pods from selector '"
                                 \o svcRecord.selector \o "':: " \o ApiError)
                     /\ UNCHANGED <<link, pending>>
                  \/ /\ Record("List", "pods", "ok")
                     /\ IF items = <<>>
                        THEN /\ LinkFail(wrap \o "got an empty list of pods")
                             /\ UNCHANGED <<link, pending>>
                        ELSE IF FirstEmptyIP(items) # 0
                        THEN /\ LinkFail("empty ip of kube native component: '"
                                         \o Namespace \o "/"
                                         \o items[FirstEmptyIP(items)].name \o "'")
                             /\ UNCHANGED <<link, pending>>
                        ELSE /\ link' = [link EXCEPT !.quarksLinks[qName] =
                                            [Type |-> @.Type,
                                             Address |-> svcRecord.dnsRecord,
                                             Instances |-> JobInstances(qName, items)]]
                             /\ pending' = pending \ {qName}
                             /\ UNCHANGED <<pc, result>>
    /\ UNCHANGED <<clusterVars, now, bdpl, store, instance, manifest, secretList,
                   serviceList, svcRecords, variables, pre, ctx>>

\* faulty variant: quarks_links is written whether or not a link was registered
ListLinkInfosEnd_AlwaysInject ==
    /\ pc = "listPods"
    /\ pending = {}
    /\ LET missingSet == NotFound(link.missingProviders) IN
       IF missingSet # {}
       THEN /\ \E missingPs \in Orders(missingSet) : LinkFail(MissingError(missingPs))
            /\ UNCHANGED manifest
       ELSE /\ manifest' = [manifest EXCEPT !.Properties =
                                InjectLinks(@, link.quarksLinks)]
            /\ pc' = "createManifestWithOps"
            /\ UNCHANGED result
    /\ UNCHANGED <<clusterVars, linkVars, now, bdpl, store, instance, variables,
                   calls, pre, ctx>>

\* listLinkInfos from the collection of the providers not found to its return
ListLinkInfosEnd ==
    /\ pc = "listPods"
    /\ pending = {}
    /\ LET missingSet == NotFound(link.missingProviders) IN
       IF missingSet # {}
       THEN /\ \E missingPs \in Orders(missingSet) : LinkFail(MissingError(missingPs))
            /\ UNCHANGED manifest
       ELSE /\ manifest' = IF DOMAIN link.quarksLinks # {}
                           THEN [manifest EXCEPT !.Properties =
                                    InjectLinks(@, link.quarksLinks)]
                           ELSE manifest
            /\ pc' = "createManifestWithOps"
            /\ UNCHANGED result
    /\ UNCHANGED <<clusterVars, linkVars, now, bdpl, store, instance, variables,
                   calls, pre, ctx>>

\* faulty variant: the manifest secret is stamped with the time of the pass
CreateManifestWithOps_Timestamped ==
    /\ pc = "createManifestWithOps"
    /\ LET wrap == "failed to create with-ops manifest secret for BOSHDeployment '"
                   \o NamespacedName \o "': "
           manifestSecret == Object(KindManifestSecret, DeploymentName,
                                    [manifest |-> manifest, at |-> now])
           applied == CreateOrUpdate(store, ManifestSecretName, manifestSecret)
       IN  \/ /\ Return(ResultError("WithOpsManifestError",
                     wrap \o "Error marshaling the manifest " \o DeploymentName
                     \o ": " \o CollabError))
              /\ UNCHANGED <<store, calls>>
           \/ /\ Return(ResultError("WithOpsManifestError",
                     wrap \o "failed to set ownerReference for Secret '"
                     \o ManifestSecretName \o "': " \o CollabError))
              /\ UNCHANGED <<store, calls>>
           \/ /\ Record("CreateOrUpdate", ManifestSecretName, "error")
              /\ Return(ResultError("WithOpsManifestError",
                     wrap \o "failed to apply Secret '" \o ManifestSecretName
                     \o "': " \o ApiError))
              /\ UNCHANGED store
           \/ /\ Record("CreateOrUpdate", ManifestSecretName, applied.op)
              /\ store' = applied.store
              /\ pc' = "convertVariables"
              /\ UNCHANGED result
    /\ UNCHANGED <<clusterVars, linkVars, now, bdpl, instance, manifest, variables, pre, ctx>>

\* faulty variant: the name of the manifest secret carries the time of the pass
CreateManifestWithOps_NamePerPass ==
    /\ pc = "createManifestWithOps"
    /\ LET wrap == "failed to create with-ops manifest secret for BOSHDeployment '"
                   \o NamespacedName \o "': "
           manifestSecret == Object(KindManifestSecret, DeploymentName, manifest)
           secretName == ManifestSecretName \o "-" \o ToString(now)
           applied == CreateOrUpdate(store, secretName, manifestSecret)
       IN  \/ /\ Return(ResultError("WithOpsManifestError",
                     wrap \o "Error marshaling the manifest " \o DeploymentName
                     \o ": " \o CollabError))
              /\ UNCHANGED <<store, calls>>
           \/ /\ Return(ResultError("WithOpsManifestError",
                     wrap \o "failed to set ownerReference for Secret '"
                     \o ManifestSecretName \o "': " \o CollabError))
              /\ UNCHANGED <<store, calls>>
           \/ /\ Record("CreateOrUpdate", ManifestSecretName, "error")
              /\ Return(ResultError("WithOpsManifestError",
                     wrap \o "failed to apply Secret '" \o ManifestSecretName
                     \o "': " \o ApiError))
              /\ UNCHANGED store
           \/ /\ Record("CreateOrUpdate", secretName, applied.op)
              /\ store' = applied.store
              /\ pc' = "convertVariables"
              /\ UNCHANGED result
    /\ UNCHANGED <<clusterVars, linkVars, now, bdpl, instance, manifest, variables, pre, ctx>>

\* createManifestWithOps: marshal, set the owner reference, apply the secret
CreateManifestWithOps ==
    /\ pc = "createManifestWithOps"
    /\ LET wrap == "failed to create with-ops manifest secret for BOSHDeployment '"
                   \o NamespacedName \o "': "
           manifestSecret == Object(KindManifestSecret, DeploymentName, manifest)
           applied == CreateOrUpdate(store, ManifestSecretName, manifestSecret)
       IN  \/ /\ Return(ResultError("WithOpsManifestError",
                     wrap \o "Error marshaling the manifest " \o DeploymentName
                     \o ": " \o CollabError))
              /\ UNCHANGED <<store, calls>>
           \/ /\ Return(ResultError("WithOpsManifestError",
                     wrap \o "failed to set ownerReference for Secret '"
                     \o ManifestSecretName \o "': " \o CollabError))
              /\ UNCHANGED <<store, calls>>
           \/ /\ Record("CreateOrUpdate", ManifestSecretName, "error")
              /\ Return(ResultError("WithOpsManifestError",
                     wrap \o "failed to apply Secret '" \o ManifestSecretName
                     \o "': " \o ApiError))
              /\ UNCHANGED store
           \/ /\ Record("CreateOrUpdate", ManifestSecretName, applied.op)
              /\ store' = applied.store
              /\ pc' = "convertVariables"
              /\ UNCHANGED result
    /\ UNCHANGED <<clusterVars, linkVars, now, bdpl, instance, manifest, variables, pre, ctx>>

\* faulty variant: after the conversion the pass goes straight to the
\* instance-group-manifest job
ConvertVariables_SkipInterpolation ==
    /\ pc = "convertVariables"
    /\ \/ /\ Return(ResultError("BadManifestError",
                 "failed to generate quarks secrets from manifest: " \o CollabError))
          /\ UNCHANGED variables
       \/ /\ variables' = [i \in DOMAIN manifest.Variables |->
                              [Name |-> VariableSecretName(manifest.Variables[i].Name),
                               Spec |-> manifest.Variables[i]]]
          /\ pc' = "instanceGroupManifestJob"
          /\ UNCHANGED result
    /\ UNCHANGED <<clusterVars, linkVars, now, bdpl, store, instance, manifest,
                   calls, pre, ctx>>

\* r.converter.Variables and the test of len(secrets)
ConvertVariables ==
    /\ pc = "convertVariables"
    /\ \/ /\ Return(ResultError("BadManifestError",
                 "failed to generate quarks secrets from manifest: " \o CollabError))
          /\ UNCHANGED variables
       \/ /\ variables' = [i \in DOMAIN manifest.Variables |->
                              [Name |-> VariableSecretName(manifest.Variables[i].Name),
                               Spec |-> manifest.Variables[i]]]
          /\ pc' = IF manifest.Variables # <<>>
                   THEN "createQuarksSecrets" ELSE "variableInterpolationJob"
          /\ UNCHANGED result
    /\ UNCHANGED <<clusterVars, linkVars, now, bdpl, store, instance, manifest,
                   calls, pre, ctx>>

\* faulty variant: a failed apply of a variable secret is logged and the loop
\* goes on
CreateQuarksSecret_SwallowApplyError ==
    /\ pc = "createQuarksSecrets"
    /\ LET wrap == "failed to create quarks secrets for BOSH manifest '"
                   \o DeploymentName \o "': "
           variable == Head(variables)
           applied == CreateOrUpdate(store, variable.Name,
                                     Object(KindQuarksSecret, ManifestSecretName,
                                            variable.Spec))
           next == IF Tail(variables) = <<>>
                   THEN "variableInterpolationJob" ELSE "createQuarksSecrets"
       IN  \/ /\ Return(ResultError("VariableGenerationError",
                     wrap \o "failed to set ownership for " \o variable.Name
                     \o ": " \o CollabError))
              /\ UNCHANGED <<store, calls, variables>>
           \/ /\ Record("CreateOrUpdate", variable.Name, "error")
              /\ variables' = Tail(variables)
              /\ pc' = next
              /\ UNCHANGED <<store, result>>
           \/ /\ applied.op # "updated"
              /\ Record("CreateOrUpdate", variable.Name, applied.op)
              /\ store' = applied.store
              /\ variables' = Tail(variables)
              /\ pc' = next
              /\ UNCHANGED result
           \/ /\ applied.op = "updated"
              /\ \/ /\ calls' = calls \o <<Call("CreateOrUpdate", variable.Name, "updated"),
                                           Call("StatusUpdate", variable.Name, "error")>>
                    /\ store' = applied.store
                    /\ Return(ResultError("VariableGenerationError", wrap \o ApiError))
                    /\ UNCHANGED variables
                 \/ /\ calls' = calls \o <<Call("CreateOrUpdate", variable.Name, "updated"),
                                           Call("StatusUpdate", variable.Name, "ok")>>
                    /\ store' = [applied.store EXCEPT ![variable.Name].generated = FALSE]
                    /\ variables' = Tail(variables)
                    /\ pc' = next
                    /\ UNCHANGED result
    /\ UNCHANGED <<clusterVars, linkVars, now, bdpl, instance, manifest, pre, ctx>>

\* faulty variant: the status of an updated variable secret is left as it is
CreateQuarksSecret_NoStatusReset ==
    /\ pc = "createQuarksSecrets"
    /\ LET wrap == "failed to create quarks secrets for BOSH manifest '"
                   \o DeploymentName \o "': "
           variable == Head(variables)
           applied == CreateOrUpdate(store, variable.Name,
                                     Object(KindQuarksSecret, ManifestSecretName,
                                            variable.Spec))
           next == IF Tail(variables) = <<>>
                   THEN "variableInterpolationJob" ELSE "createQuarksSecrets"
       IN  \/ /\ Return(ResultError("VariableGenerationError",
                     wrap \o "failed to set ownership for " \o variable.Name
                     \o ": " \o CollabError))
              /\ UNCHANGED <<store, calls, variables>>
           \/ /\ Record("CreateOrUpdate", variable.Name, "error")
              /\ Return(ResultError("VariableGenerationError",
                     wrap \o "creating or updating QuarksSecret '" \o variable.Name
                     \o "': " \o ApiError))
              /\ UNCHANGED <<store, variables>>
           \/ /\ Record("CreateOrUpdate", variable.Name, applied.op)
              /\ store' = applied.store
              /\ variables' = Tail(variables)
              /\ pc' = next
              /\ UNCHANGED result
    /\ UNCHANGED <<clusterVars, linkVars, now, bdpl, instance, manifest, pre, ctx>>

\* one iteration of the loop of createQuarksSecrets
CreateQuarksSecret ==
    /\ pc = "createQuarksSecrets"
    /\ LET wrap == "failed to create quarks secrets for BOSH manifest '"
                   \o DeploymentName \o "': "
           variable == Head(variables)
           applied == CreateOrUpdate(store, variable.Name,
                                     Object(KindQuarksSecret, ManifestSecretName,
                                            variable.Spec))
           next == IF Tail(variables) = <<>>
                   THEN "variableInterpolationJob" ELSE "createQuarksSecrets"
       IN  \/ /\ Return(ResultError("VariableGenerationError",
                     wrap \o "failed to set ownership for " \o variable.Name
                     \o ": " \o CollabError))
              /\ UNCHANGED <<store, calls, variables>>
           \/ /\ Record("CreateOrUpdate", variable.Name, "error")
              /\ Return(ResultError("VariableGenerationError",
                     wrap \o "creating or updating QuarksSecret '" \o variable.Name
                     \o "': " \o ApiError))
              /\ UNCHANGED <<store, variables>>
           \/ /\ applied.op # "updated"
              /\ Record("CreateOrUpdate", variable.Name, applied.op)
              /\ store' = applied.store
              /\ variables' = Tail(variables)
              /\ pc' = next
              /\ UNCHANGED result
           \/ /\ applied.op = "updated"
              /\ \/ /\ calls' = calls \o <<Call("CreateOrUpdate", variable.Name, "updated"),
                                           Call("StatusUpdate", variable.Name, "error")>>
                    /\ store' = applied.store
                    /\ Return(ResultError("VariableGenerationError", wrap \o ApiError))
                    /\ UNCHANGED variables
                 \/ /\ calls' = calls \o <<Call("CreateOrUpdate", variable.Name, "updated"),
                                           Call("StatusUpdate", variable.Name, "ok")>>
                    /\ store' = [applied.store EXCEPT ![variable.Name].generated = FALSE]
                    /\ variables' = Tail(variables)
                    /\ pc' = next
                    /\ UNCHANGED result
    /\ UNCHANGED <<clusterVars, linkVars, now, bdpl, instance, manifest, pre, ctx>>

\* faulty variant: a failed apply of the job is logged and the pass goes on
CreateQuarksJob_SwallowApplyError(name, qJob, event, buildWrap, createWrap, nextPc) ==
    LET applied == CreateOrUpdate(store, name, Object(KindQuarksJob, DeploymentName, qJob)) IN
    \/ /\ Return(ResultError(event, buildWrap \o CollabError))
       /\ UNCHANGED <<store, calls>>
    \/ /\ Record("CreateOrUpdate", name, "error")
       /\ pc' = nextPc
       /\ UNCHANGED <<store, result>>
    \/ /\ Record("CreateOrUpdate", name, applied.op)
       /\ store' = applied.store
       /\ pc' = nextPc
       /\ UNCHANGED result

\* faulty variant: when the owner reference cannot be set, the job is applied
\* without one
CreateQuarksJob_ApplyWithoutOwner(name, qJob, event, buildWrap, createWrap, nextPc) ==
    LET applied == CreateOrUpdate(store, name, Object(KindQuarksJob, DeploymentName, qJob))
        orphan == CreateOrUpdate(store, name, Object(KindQuarksJob, "", qJob))
    IN
    \/ /\ Return(ResultError(event, buildWrap \o CollabError))
       /\ UNCHANGED <<store, calls>>
    \/ /\ Record("CreateOrUpdate", name, orphan.op)
       /\ store' = orphan.store
       /\ pc' = nextPc
       /\ UNCHANGED result
    \/ /\ Record("CreateOrUpdate", name, "error")
       /\ Return(ResultError(event,
              createWrap \o "creating or updating QuarksJob '" \o name \o "': "
              \o ApiError))
       /\ UNCHANGED store
    \/ /\ Record("CreateOrUpdate", name, applied.op)
       /\ store' = applied.store
       /\ pc' = nextPc
       /\ UNCHANGED result

\* createQuarksJob of job qJob named name; failures are reported under event
\* with the two prefixes of Reconcile
CreateQuarksJob(name, qJob, event, buildWrap, createWrap, nextPc) ==
    LET applied == CreateOrUpdate(store, name, Object(KindQuarksJob, DeploymentName, qJob)) IN
    \/ /\ Return(ResultError(event, buildWrap \o CollabError))
       /\ UNCHANGED <<store, calls>>
    \/ /\ Return(ResultError(event,
              createWrap \o "failed to set ownerReference for QuarksJob '" \o name
              \o "': " \o CollabError))
       /\ UNCHANGED <<store, calls>>
    \/ /\ Record("CreateOrUpdate", name, "error")
       /\ Return(ResultError(event,
              createWrap \o "creating or updating QuarksJob '" \o name \o "': "
              \o ApiError))
       /\ UNCHANGED store
    \/ /\ Record("CreateOrUpdate", name, applied.op)
       /\ store' = applied.store
       /\ pc' = nextPc
       /\ UNCHANGED result

\* the "Variable Interpolation" QuarksJob: build it and apply it
VariableInterpolationJob ==
    /\ pc = "variableInterpolationJob"
    /\ CreateQuarksJob(VariableInterpolationJobName,
           [manifest |-> manifest],
           "DesiredManifestError",
           "failed to build the desired manifest qJob: ",
           "failed to create desired manifest qJob for BOSHDeployment '"
               \o NamespacedName \o "': ",
           "instanceGroupManifestJob")
    /\ UNCHANGED <<clusterVars, linkVars, now, bdpl, instance, manifest, variables, pre, ctx>>

\* the "Instance group manifest" QuarksJob: build it and apply it
InstanceGroupManifestJob ==
    /\ pc = "instanceGroupManifestJob"
    /\ CreateQuarksJob(InstanceGroupManifestJobName,
           [manifest |-> manifest, linkInfos |-> link.linkInfos,
            initialRollout |-> (instance.Generation = 1)],
           "InstanceGroupManifestError",
           "failed to build instance group manifest qJob: ",
           "failed to create instance group manifest qJob for BOSHDeployment '"
               \o NamespacedName \o "': ",
           "updateStatus")
    /\ UNCHANGED <<clusterVars, linkVars, now, bdpl, instance, manifest, variables, pre, ctx>>

\* faulty variant: a failed status update is returned as an error
UpdateStatus_FailureIsError ==
    /\ pc = "updateStatus"
    /\ instance' = [instance EXCEPT !.LastReconcile = <<now>>]
    /\ \/ /\ Record("StatusUpdate", DeploymentName, "error")
          /\ Return(ResultError("UpdateError", ApiError))
          /\ UNCHANGED bdpl
       \/ /\ bdpl.exists
          /\ Record("StatusUpdate", DeploymentName, "ok")
          /\ bdpl' = [bdpl EXCEPT !.LastReconcile = <<now>>]
          /\ Return(ResultDone)
    /\ UNCHANGED <<clusterVars, linkVars, now, store, manifest, variables, pre, ctx>>

\* the status update with the timestamp of the last reconcile
UpdateStatus ==
    /\ pc = "updateStatus"
    /\ instance' = [instance EXCEPT !.LastReconcile = <<now>>]
    /\ \/ /\ Record("StatusUpdate", DeploymentName, "error")
          /\ UNCHANGED bdpl
       \/ /\ bdpl.exists
          /\ Record("StatusUpdate", DeploymentName, "ok")
          /\ bdpl' = [bdpl EXCEPT !.LastReconcile = <<now>>]
    /\ Return(ResultDone)
    /\ UNCHANGED <<clusterVars, linkVars, now, store, manifest, variables, pre, ctx>>

(***************************************************************************)
(* The environment.                                                        *)
(***************************************************************************)
\* time passes.  Reconcile reads the clock at the meltdown check and at the
\* status update and nowhere else, so the ticks are taken right before the two
\* reads; a tick at any other moment shows at the next read the same way.
Tick ==
    /\ pc \in {"meltdown", "updateStatus"}
    /\ now < MaxTime
    /\ now' = now + 1
    /\ UNCHANGED <<clusterVars, linkVars, bdpl, store, pc, instance, manifest,
                   variables, result, calls, pre, ctx>>

\* the user deletes the deployment resource after the reconcile request for it
\* was queued and before the pass fetches it
DeleteDeployment ==
    /\ pc = "get"
    /\ bdpl.exists
    /\ bdpl' = [bdpl EXCEPT !.exists = FALSE]
    /\ UNCHANGED <<clusterVars, linkVars, now, store, pc, instance, manifest,
                   variables, result, calls, pre, ctx>>

Next ==
    \/ Dispatch
    \/ GetInstance
    \/ MeltdownCheck
    \/ ResolveManifest
    \/ ListLinkInfosBegin
    \/ ListSecrets
    \/ ListServices
    \/ MatchSecrets
    \/ ListPods
    \/ ListLinkInfosEnd
    \/ CreateManifestWithOps
    \/ ConvertVariables
    \/ CreateQuarksSecret
    \/ VariableInterpolationJob
    \/ InstanceGroupManifestJob
    \/ UpdateStatus
    \/ Tick
    \/ DeleteDeployment

Spec == Init /\ [][Next]_vars

(***************************************************************************)
(* The link resolver alone, on every namespace within the bounds.          *)
(***************************************************************************)
\* The resolver compares provider names for equality only, so the sets of
\* missing providers are taken up to renaming: none, one, two, all three.
MissingSets == {{}, {"nats-provider"}, {"A", "nats-provider"}, Providers}

\* Reconcile has fetched the deployment and resolved its manifest, and calls
\* listLinkInfos
InitLinks ==
    /\ cfg = [MeltdownDuration |-> MaxDuration, MeltdownRequeueAfter |-> MaxDuration]
    /\ now = 0
    /\ bdpl = [exists |-> TRUE, LastReconcile |-> NilTime, Generation |-> 1]
    /\ resolved \in {m \in Manifests(MissingSets) :
                         ~m.Properties.nil /\ m.Variables = <<>>}
    /\ secrets \in SecretListsUpTo(SecretNames, Providers)
    /\ services \in UNION {ServiceLists(k, Range(SecretNames)) : k \in 0..Len(ServiceNames)}
    /\ pods \in UNION {PodLists(k, Range(Selectors)) : k \in 0..MaxPods}
    \* what the resolver never reads is left out: the secrets of the namespace
    \* of a manifest without missing providers, the pods no listed service selects
    /\ resolved.missing = {} => secrets = <<>>
    /\ \A i \in DOMAIN pods : \E j \in DOMAIN services : pods[i].label = services[j].selector
    /\ store = EmptyMap
    /\ pc = "listLinkInfos"
    /\ instance = [LastReconcile |-> NilTime, Generation |-> 1]
    /\ manifest = resolved
    /\ secretList = <<>>
    /\ serviceList = <<>>
    /\ link = NoLink
    /\ svcRecords = EmptyMap
    /\ pending = {}
    /\ variables = <<>>
    /\ result = ResultNone
    /\ calls = <<Call("Get", DeploymentName, "ok")>>
    /\ pre = [store |-> EmptyMap, LastReconcile |-> NilTime]
    /\ ctx = WithTimeout

NextLinks ==
    \/ ListLinkInfosBegin
    \/ ListSecrets
    \/ ListServices
    \/ MatchSecrets
    \/ ListPods
    \/ ListLinkInfosEnd

SpecLinks == InitLinks /\ [][NextLinks]_vars

(***************************************************************************)
(* The link resolver on the longer listings of secrets, the services and   *)
(* pods being those of the base namespace.                                 *)
(***************************************************************************)
InitSecrets ==
    /\ cfg = [MeltdownDuration |-> MaxDuration, MeltdownRequeueAfter |-> MaxDuration]
    /\ now = 0
    /\ bdpl = [exists |-> TRUE, LastReconcile |-> NilTime, Generation |-> 1]
    /\ resolved \in {m \in Manifests(MissingSets) :
                         ~m.Properties.nil /\ m.Variables = <<>>}
    /\ secrets \in SecretListsUpTo(LinkSecretNames, Providers)
    /\ services = BaseServices
    /\ pods = BasePods
    /\ store = EmptyMap
    /\ pc = "listLinkInfos"
    /\ instance = [LastReconcile |-> NilTime, Generation |-> 1]
    /\ manifest = resolved
    /\ secretList = <<>>
    /\ serviceList = <<>>
    /\ link = NoLink
    /\ svcRecords = EmptyMap
    /\ pending = {}
    /\ variables = <<>>
    /\ result = ResultNone
    /\ calls = <<Call("Get", DeploymentName, "ok")>>
    /\ pre = [store |-> EmptyMap, LastReconcile |-> NilTime]
    /\ ctx = WithTimeout

SpecSecrets == InitSecrets /\ [][NextLinks]_vars

(***************************************************************************)
(* Properties of Reconcile.                                                *)
(***************************************************************************)
\* the pass has made no call that changed the cluster
NoMutation(cs) == \A i \in DOMAIN cs : ~IsMutation(cs[i])

\* the last call of the pass
LastCall == calls[Len(calls)]

\* the step from the meltdown check that ends the pass / that goes on
MeltdownSkips == pc = "meltdown" /\ pc' = "idle"
MeltdownPasses == pc = "meltdown" /\ pc' = "resolveManifest"

\* C1: a pass over a deployment whose stored lastReconcileTime is T, under
\* window W, skips the pipeline exactly when its clock reading t lies in
\* [T, T+W).  The skipping pass returns success with a requeue-after delay,
\* has made no create, update or status write, and leaves the derived objects
\* and lastReconcileTime as they were; at T+W or later (or with no
\* lastReconcileTime yet) the pass goes on to resolve the manifest.
C1_MeltdownWindow ==
    [][ /\ pc = "meltdown" /\ pc' # "meltdown"
            => IF /\ bdpl.LastReconcile # NilTime
                  /\ bdpl.LastReconcile[1] <= now
                  /\ now < bdpl.LastReconcile[1] + cfg.MeltdownDuration
               THEN MeltdownSkips
               ELSE MeltdownPasses
        /\ MeltdownSkips
            => /\ result'.returned /\ ~result'.err /\ result'.RequeueAfter > 0
               /\ NoMutation(calls')
               /\ store' = pre.store
               /\ bdpl' = bdpl
               /\ bdpl.LastReconcile = pre.LastReconcile
      ]_vars

\* C1 witness: a pass was skipped inside the window of an earlier pass that
\* had written the derived objects
C1_Witness ==
    /\ pc = "idle"
    /\ result.returned /\ result.RequeueAfter > 0
    /\ bdpl.LastReconcile # NilTime
    /\ now > bdpl.LastReconcile[1]
    /\ ManifestSecretName \in DOMAIN store

\* C2 as stated: inside the window the returned delay is at most
\* W - (t - T)
C2_DelayWithinWindow ==
    [][MeltdownSkips =>
          result'.RequeueAfter
              <= cfg.MeltdownDuration - (now - instance.LastReconcile[1])]_vars

\* C2 amended: inside the window the returned delay is the configured
\* MeltdownRequeueAfter, whatever part of the window has elapsed
C2_DelayIsConfigured ==
    [][MeltdownSkips =>
          /\ result'.RequeueAfter = cfg.MeltdownRequeueAfter
          /\ ~result'.Requeue /\ ~result'.err]_vars

\* C2 witness: a pass skipped late in the window returned a delay that ends
\* after the window does
C2_Witness ==
    /\ pc = "idle"
    /\ result.returned /\ result.RequeueAfter > 0
    /\ bdpl.LastReconcile # NilTime
    /\ now - bdpl.LastReconcile[1] > 0
    /\ result.RequeueAfter > cfg.MeltdownDuration - (now - bdpl.LastReconcile[1])

\* C3: when the fetch finds no deployment, the pass returns success with no
\* error and no requeue, and the fetch is its only call: no listing, no
\* create, no update, no status write
C3_NotFound ==
    (calls # <<>> /\ calls[1] = Call("Get", DeploymentName, "notfound"))
        => /\ pc = "idle"
           /\ result = ResultDone
           /\ Len(calls) = 1
           /\ store = pre.store
           /\ bdpl.LastReconcile = pre.LastReconcile

\* C3 witness: a pass found the deployment deleted and returned
C3_Witness ==
    /\ pc = "idle"
    /\ ~bdpl.exists
    /\ result = ResultDone
    /\ calls = <<Call("Get", DeploymentName, "notfound")>>

\* the place of a derived object in the order of the pipeline
Rank(name) ==
    IF name = ManifestSecretName THEN 1
    ELSE IF name = VariableInterpolationJobName THEN 3
    ELSE IF name = InstanceGroupManifestJobName THEN 4
    ELSE IF name = DeploymentName THEN 5
    ELSE 2

\* the place of a step: the rank of the object it synchronizes, or of the
\* last object synchronized before it
StepRank(p) ==
    IF p = "createManifestWithOps" \/ p = "convertVariables" THEN 1
    ELSE IF p = "createQuarksSecrets" THEN 2
    ELSE IF p = "variableInterpolationJob" THEN 3
    ELSE IF p = "instanceGroupManifestJob" THEN 4
    ELSE 0

\* a pass ends at a step before the status update, other than by finding no
\* deployment or by the meltdown guard
Aborts ==
    /\ pc \notin {"idle", "meltdown", "updateStatus"}
    /\ pc' = "idle"
    /\ ~(pc = "get" /\ calls'[Len(calls')].res = "notfound")

\* C4: a pass in which a call before the status update fails ends with that
\* call, and a pass that ends at a step before the status update returns an error;
\* no object of a later step has been created or updated, the stored
\* lastReconcileTime is the one the pass found, and every derived object
\* written before the failing step is still there as written
C4_AbortOnFailure ==
    [][ /\ \A i \in DOMAIN calls' :
               (calls'[i].res = "error"
                   /\ calls'[i] # Call("StatusUpdate", DeploymentName, "error"))
                   => pc' = "idle" /\ result'.err /\ i = Len(calls')
        /\ Aborts =>
            /\ result'.returned /\ result'.err
            /\ ~result'.Requeue /\ result'.RequeueAfter = 0
            /\ \A i \in DOMAIN calls' :
                   IsMutation(calls'[i]) => Rank(calls'[i].obj) <= StepRank(pc)
            /\ bdpl' = bdpl
            /\ bdpl.LastReconcile = pre.LastReconcile
            /\ \A k \in DOMAIN store :
                   /\ k \in DOMAIN store'
                   /\ Rank(k) < StepRank(pc) => store'[k] = store[k]
            /\ \A k \in DOMAIN store' : Rank(k) <= StepRank(pc)
                                          \/ k \in DOMAIN pre.store
      ]_vars

\* C4 witness: the apply of the instance-group-manifest job failed in the first
\* pass; the manifest secret and the interpolation job written before it are
\* in the store, the failed job is not, and no lastReconcileTime was stored
C4_Witness ==
    /\ pc = "idle"
    /\ result.err
    /\ LastCall = Call("CreateOrUpdate", InstanceGroupManifestJobName, "error")
    /\ pre.store = EmptyMap
    /\ ManifestSecretName \in DOMAIN store
    /\ VariableInterpolationJobName \in DOMAIN store
    /\ InstanceGroupManifestJobName \notin DOMAIN store
    /\ bdpl.LastReconcile = NilTime

\* C5: when the status update fails after both jobs were applied, the pass
\* returns success with no error and no requeue; the manifest secret and the
\* two jobs are in the store as the pass wrote them, and the stored
\* lastReconcileTime is the one the pass found
C5_StatusWriteFailure ==
    (calls # <<>> /\ LastCall = Call("StatusUpdate", DeploymentName, "error"))
        => /\ pc = "idle"
           /\ result = ResultDone
           /\ bdpl.LastReconcile = pre.LastReconcile
           /\ {ManifestSecretName, VariableInterpolationJobName,
               InstanceGroupManifestJobName} \subseteq DOMAIN store
           /\ store[ManifestSecretName]
                  = Object(KindManifestSecret, DeploymentName, manifest)
           /\ store[VariableInterpolationJobName].data = [manifest |-> manifest]
           /\ store[InstanceGroupManifestJobName].data.manifest = manifest
           /\ \A i \in DOMAIN manifest.Variables :
                  VariableSecretName(manifest.Variables[i].Name) \in DOMAIN store

\* C5 witness: the first pass wrote every derived object and failed to store
\* its timestamp, which is still unset after the clock moved on
C5_Witness ==
    /\ pc = "idle"
    /\ calls # <<>>
    /\ LastCall = Call("StatusUpdate", DeploymentName, "error")
    /\ pre.store = EmptyMap
    /\ InstanceGroupManifestJobName \in DOMAIN store
    /\ bdpl.exists
    /\ bdpl.LastReconcile = NilTime
    /\ now > 0

(***************************************************************************)
(* Properties of the link resolver.                                        *)
(***************************************************************************)
\* the positions, in the listing items, of the secrets exported to this
\* deployment whose descriptor parses and names provider p
Naming(items, p) ==
    {i \in DOMAIN items : /\ SecretOfDeployment(items[i])
                          /\ items[i].ann.valid
                          /\ items[i].ann.name = p}

\* the missing providers of the manifest that no secret of the namespace exports
Unmatched == {p \in resolved.missing : Naming(secrets, p) = {}}

\* the resolver has left its loops and is about to collect what is still missing
ResolutionEnds == pc = "listPods" /\ pending = {}

\* C6: when the resolver gets past its loops with missing providers that no
\* secret matched, Reconcile fails with the one error that lists exactly those
\* names, comma-joined, in some order; with none unmatched it does not fail
C6_MissingAggregated ==
    [][ResolutionEnds =>
          IF Unmatched # {}
          THEN /\ pc' = "idle"
               /\ \E o \in Orders(Unmatched) :
                      result' = LinkError("missing link secrets for providers: "
                                          \o Join(o, ", "))
          ELSE pc' = "createManifestWithOps" /\ ~result'.returned]_vars

\* C6 witness: of the missing providers A, B and nats-provider only A is
\* exported by a secret; the error lists B and nats-provider and not A
C6_Witness ==
    /\ pc = "idle"
    /\ resolved.missing = Providers
    /\ Naming(secrets, "A") # {}
    /\ Unmatched = {"B", "nats-provider"}
    /\ result = LinkError("missing link secrets for providers: B, nats-provider")

\* the position of the second listed secret naming provider p
Second(p) ==
    CHOOSE j \in Naming(secretList, p) :
        Cardinality({i \in Naming(secretList, p) : i < j}) = 1

\* the listed secrets of this deployment whose descriptor does not parse
Unparseable ==
    {i \in DOMAIN secretList : /\ SecretOfDeployment(secretList[i])
                               /\ ~secretList[i].ann.valid}

\* no secret listed before position j ends the loop over the secrets: none
\* fails to parse and none is the second to name a missing provider
ReachedBy(j) ==
    /\ \A i \in Unparseable : j < i
    /\ \A B \in manifest.missing :
           Cardinality(Naming(secretList, B)) >= 2 => j <= Second(B)

\* the loop over the listed secrets comes to a second secret naming A, and
\* Reconcile fails with the duplicate error for A, nothing written
DuplicateFails(A) ==
    (/\ pc = "matchSecrets"
     /\ Cardinality(Naming(secretList, A)) >= 2
     /\ ReachedBy(Second(A)))
        => /\ pc' = "idle"
           /\ result' = LinkError("duplicated secrets of provider: " \o A)
           /\ manifest' = resolved
           /\ "quarks_links" \notin DOMAIN manifest'.Properties.map
           /\ store' = pre.store
           /\ NoMutation(calls')

\* C7 as stated: for every provider name A, two listed secrets of this
\* deployment naming A make Reconcile fail with the duplicate error for A
C7_DuplicateAnyProvider ==
    [][\A A \in Providers : DuplicateFails(A)]_vars

\* C7 amended: for every missing provider A of the manifest, two listed
\* secrets of this deployment naming A make Reconcile fail with the duplicate
\* error for A before anything is written; a name that is not a missing
\* provider is never reported as duplicated
C7_DuplicateMissingProvider ==
    [][ /\ \A A \in manifest.missing : DuplicateFails(A)
        /\ \A A \in Providers \ manifest.missing :
               result' # LinkError("duplicated secrets of provider: " \o A)
      ]_vars

\* C7 witness: the first and third of four listed secrets name the missing
\* provider A, the fourth does not parse; Reconcile failed on the third
C7_Witness ==
    /\ pc = "idle"
    /\ "A" \in resolved.missing
    /\ Naming(secretList, "A") = {1, 3}
    /\ Unparseable = {4}
    /\ result = LinkError("duplicated secrets of provider: A")
    /\ manifest = resolved

\* the positions, in the listing svcs, of the services of this deployment
\* annotated as serving provider p
Serving(svcs, p) ==
    {j \in DOMAIN svcs : ServiceOfDeployment(svcs[j]) /\ svcs[j].provider = <<p>>}

\* the provider names the services of this deployment in svcs are annotated with
Annotated(svcs) ==
    {svcs[j].provider[1] :
        j \in {k \in DOMAIN svcs : /\ ServiceOfDeployment(svcs[k])
                                   /\ svcs[k].provider # NoAnnotation}}

\* the provider names two services of this deployment in svcs are annotated with
Duplicated(svcs) == {p \in Annotated(svcs) : Cardinality(Serving(svcs, p)) >= 2}

\* what Reconcile returns for two services of provider p
DuplicateServiceError(p) ==
    LinkError("failed to get link services for '" \o DeploymentName
              \o "': duplicated services of provider: " \o p)

\* C8 as stated: in a namespace where two services of this deployment carry the
\* same provider-name annotation, link resolution that did not fail at a
\* listing or in the loop over the secrets fails with the duplicate error
\* naming that provider
C8_DuplicateServicesFail ==
    (/\ pc \in {"idle", "createManifestWithOps"}
     /\ Duplicated(services) # {}
     /\ LastCall.res # "error"
     /\ link.err = "")
        => \E p \in Duplicated(services) : result = DuplicateServiceError(p)

\* C8 amended: when the manifest has missing providers, the listings succeed
\* and the loop over the secrets ends without error, two listed services of
\* this deployment with the same provider-name annotation make Reconcile fail
\* with the duplicate error naming that provider; otherwise every annotated
\* provider gets the record of its one service, with the DNS address
\* <service-name>.<namespace>.svc.<cluster-domain>.  For a manifest without
\* missing providers no service is listed and no record is kept.
C8_DuplicateServicesListed ==
    [][ /\ (pc = "matchSecrets" /\ link'.err = "") =>
              IF Duplicated(serviceList) # {}
              THEN /\ pc' = "idle"
                   /\ \E p \in Duplicated(serviceList) :
                          result' = DuplicateServiceError(p)
                   /\ svcRecords' = EmptyMap
              ELSE /\ pc' = "listPods"
                   /\ DOMAIN svcRecords' = Annotated(serviceList)
                   /\ \A p \in DOMAIN svcRecords' :
                          \E j \in Serving(serviceList, p) :
                              /\ Serving(serviceList, p) = {j}
                              /\ svcRecords'[p].selector = serviceList[j].selector
                              /\ svcRecords'[p].dnsRecord =
                                     serviceList[j].name \o "." \o Namespace
                                     \o ".svc." \o ClusterDomain
        /\ manifest.missing = {} => serviceList' = <<>> /\ svcRecords' = EmptyMap
      ]_vars

\* C8 witness: both listed services are annotated for provider s1 and
\* Reconcile failed with the duplicate error naming s1
C8_Witness ==
    /\ pc = "idle"
    /\ resolved.missing # {}
    /\ Serving(serviceList, SecretNames[1]) = {1, 2}
    /\ result = DuplicateServiceError(SecretNames[1])
    /\ svcRecords = EmptyMap

\* the positions of Reconcile inside listLinkInfos
LinkSteps == {"listLinkInfos", "listSecrets", "listServices", "matchSecrets", "listPods"}

\* C9: a pass that ends inside link resolution returns an error, its manifest
\* has the properties the manifest resolver returned, without quarks_links,
\* and it has created or updated nothing; a failed listing ends the pass; a
\* deployment whose one missing provider nats-provider no secret exports never
\* gets past link resolution, and at the end of it fails with "missing link
\* secrets for providers: nats-provider", no manifest secret in the store
C9_LinkFailureAborts ==
    [][ /\ (pc \in LinkSteps /\ pc' = "idle") =>
              /\ result'.returned /\ result'.err
              /\ result'.event = "InstanceGroupManifestError"
              /\ manifest' = resolved
              /\ "quarks_links" \notin DOMAIN manifest'.Properties.map
              /\ store' = pre.store
              /\ \A i \in DOMAIN calls' :
                     calls'[i].op # "CreateOrUpdate" /\ ~IsMutation(calls'[i])
        /\ (pc \in LinkSteps /\ calls' # calls /\ calls'[Len(calls')].res = "error")
              => pc' = "idle"
        /\ (/\ pc \in LinkSteps
            /\ resolved.missing = {"nats-provider"}
            /\ Naming(secrets, "nats-provider") = {}) =>
              /\ pc' \in LinkSteps \cup {"idle"}
              /\ ResolutionEnds =>
                    /\ pc' = "idle"
                    /\ result' = LinkError("missing link secrets for providers: "
                                           \o "nats-provider")
                    /\ ManifestSecretName \notin DOMAIN store'
      ]_vars

\* C9 witness: the only secret exporting nats-provider exports it to another
\* deployment; the pass failed after its two listings and the store is empty
C9_Witness ==
    /\ pc = "idle"
    /\ resolved.missing = {"nats-provider"}
    /\ secrets # <<>>
    /\ \A i \in DOMAIN secrets : secrets[i].dep = <<OtherDeployment>>
    /\ result = LinkError("missing link secrets for providers: nats-provider")
    /\ calls = <<Call("Get", DeploymentName, "ok"), Call("List", "secrets", "ok"),
                 Call("List", "services", "ok")>>
    /\ store = EmptyMap

\* the names of the secrets of the namespace that register a link: exported
\* to this deployment, naming a missing provider of the manifest, with a type
Registered ==
    {secrets[i].name :
        i \in {k \in DOMAIN secrets : /\ SecretOfDeployment(secrets[k])
                                      /\ secrets[k].ann.valid
                                      /\ secrets[k].ann.name \in resolved.missing
                                      /\ secrets[k].ann.ptype # ""}}

\* C10: once link resolution has returned, the properties of the manifest hold
\* quarks_links exactly when a secret registered a link, and then it holds one
\* link per such secret next to the properties the manifest came with; when
\* none did, and whenever resolution is under way or has failed, the manifest
\* is the one the manifest resolver returned
C10_QuarksLinksIffResolved ==
    /\ pc = "createManifestWithOps" =>
          /\ ("quarks_links" \in DOMAIN manifest.Properties.map) <=> (Registered # {})
          /\ Registered = {} => manifest = resolved
          /\ Registered # {} =>
                /\ DOMAIN manifest.Properties.map["quarks_links"] = Registered
                /\ \A k \in DOMAIN resolved.Properties.map :
                       /\ k \in DOMAIN manifest.Properties.map
                       /\ manifest.Properties.map[k] = resolved.Properties.map[k]
                /\ DOMAIN manifest.Properties.map
                       = DOMAIN resolved.Properties.map \cup {"quarks_links"}
                /\ manifest.Variables = resolved.Variables
    /\ pc # "createManifestWithOps" => manifest = resolved

\* C10 witness: two secrets matched missing providers, one with a type and one
\* without; quarks_links holds the one link, with the instances of its pods
C10_Witness ==
    /\ pc = "createManifestWithOps"
    /\ Len(link.linkInfos) = 2
    /\ Cardinality(Registered) = 1
    /\ "quarks_links" \in DOMAIN manifest.Properties.map
    /\ \E q \in Registered :
           manifest.Properties.map["quarks_links"][q].Instances # <<>>

\* the pods of the namespace that carry the label sel, in listing order
Selected(sel) == SelectSeq(pods, LAMBDA p : p.label = sel)

\* the resolved link ql of secret q has the DNS address of the service
\* annotated with q and one instance per pod of that service, in listing
\* order: index = position, the pod's address, bootstrap exactly at index 0
LinkComplete(q, ql) ==
    \E j \in Serving(services, q) :
        LET ps == Selected(services[j].selector) IN
        /\ ql.Address = services[j].name \o "." \o Namespace \o ".svc." \o ClusterDomain
        /\ Len(ql.Instances) = Len(ps)
        /\ \A i \in DOMAIN ps :
               /\ ql.Instances[i].Name = q
               /\ ql.Instances[i].ID = ps[i].uid
               /\ ql.Instances[i].Index = i - 1
               /\ ql.Instances[i].Address = ps[i].ip
               /\ ql.Instances[i].Bootstrap <=> (i - 1 = 0)

\* the namespace resolves every missing provider of the manifest: one secret
\* of this deployment names it, with a type; one service is annotated with the
\* name of that secret; the service selects pods and each has an address; no
\* secret of this deployment fails to parse
FullyResolving ==
    /\ \A i \in DOMAIN secrets : SecretOfDeployment(secrets[i]) => secrets[i].ann.valid
    /\ Duplicated(services) = {}
    /\ \A p \in resolved.missing :
           \E i \in Naming(secrets, p) :
               /\ Naming(secrets, p) = {i}
               /\ secrets[i].ann.ptype # ""
               /\ \E j \in Serving(services, secrets[i].name) :
                      LET ps == Selected(services[j].selector) IN
                      /\ ps # <<>>
                      /\ \A k \in DOMAIN ps : ps[k].ip # ""

\* C11: with two missing providers that the namespace fully resolves, link
\* resolution fails only when a listing fails, and on success quarks_links
\* holds exactly two links and two link infos were returned; every link of a
\* successful resolution whose secret has a service is complete: the service's
\* DNS address, one instance per listed pod in listing order, index 0..n-1,
\* the pod's address, bootstrap exactly at index 0
C11_LinkCompleteness ==
    /\ (pc = "createManifestWithOps" /\ "quarks_links" \in DOMAIN manifest.Properties.map)
          => \A q \in DOMAIN manifest.Properties.map["quarks_links"] :
                 Serving(services, q) # {}
                     => LinkComplete(q, manifest.Properties.map["quarks_links"][q])
    /\ (Cardinality(resolved.missing) = 2 /\ FullyResolving) =>
          /\ pc = "idle" => LastCall.res = "error"
          /\ pc = "createManifestWithOps" =>
                /\ "quarks_links" \in DOMAIN manifest.Properties.map
                /\ Cardinality(DOMAIN manifest.Properties.map["quarks_links"]) = 2
                /\ \A q \in DOMAIN manifest.Properties.map["quarks_links"] :
                       LinkComplete(q, manifest.Properties.map["quarks_links"][q])
                /\ Len(link.linkInfos) = 2
                /\ {link.linkInfos[i].ProviderName : i \in DOMAIN link.linkInfos}
                       = resolved.missing

\* C11 witness: providers A and nats-provider are exported by the two secrets,
\* each served by a service with a pod; quarks_links holds the two links
C11_Witness ==
    /\ pc = "createManifestWithOps"
    /\ resolved.missing = {"A", "nats-provider"}
    /\ FullyResolving
    /\ DOMAIN manifest.Properties.map["quarks_links"] = Range(SecretNames)
    /\ \A q \in Range(SecretNames) :
           Len(manifest.Properties.map["quarks_links"][q].Instances) = 1

\* the names of the derived objects of the deployment as last resolved
DerivedNames ==
    {ManifestSecretName, VariableInterpolationJobName, InstanceGroupManifestJobName}
    \cup {VariableSecretName(resolved.Variables[i].Name) : i \in DOMAIN resolved.Variables}

\* C12: with the deployment, the cluster and the collaborators' outputs
\* unchanged, the content of no derived object ever changes once written, and
\* a pass that begins with every derived object in the store gets "unchanged"
\* from every create-or-update that does not fail, writes no status of a
\* variable secret and leaves the store as it found it
C12_Idempotence ==
    [][ /\ \A k \in DOMAIN store : k \in DOMAIN store' /\ store'[k] = store[k]
        /\ DerivedNames \subseteq DOMAIN pre.store =>
              /\ store' = pre.store
              /\ \A i \in DOMAIN calls' :
                     /\ calls'[i].op = "CreateOrUpdate"
                            => calls'[i].res \in {"unchanged", "error"}
                     /\ calls'[i].op = "StatusUpdate"
                            => calls'[i].obj = DeploymentName
      ]_vars

\* C12 witness: a second pass, past the window of the first, got "unchanged"
\* for the manifest secret, the variable secret and both jobs
C12_Witness ==
    /\ pc = "idle"
    /\ DerivedNames \subseteq DOMAIN pre.store
    /\ resolved.Variables # <<>>
    /\ calls = <<Call("Get", DeploymentName, "ok"),
                 Call("List", "secrets", "ok"),
                 Call("List", "services", "ok"),
                 Call("List", "pods", "ok"),
                 Call("CreateOrUpdate", ManifestSecretName, "unchanged"),
                 Call("CreateOrUpdate",
                      VariableSecretName(resolved.Variables[1].Name), "unchanged"),
                 Call("CreateOrUpdate", VariableInterpolationJobName, "unchanged"),
                 Call("CreateOrUpdate", InstanceGroupManifestJobName, "unchanged"),
                 Call("StatusUpdate", DeploymentName, "ok")>>
    /\ store = pre.store

\* the owner a derived object of kind kind must have
OwnerOfKind(kind) ==
    IF kind = KindQuarksSecret THEN ManifestSecretName ELSE DeploymentName

\* the messages of the errors Reconcile returns when an owner reference could
\* not be set: on the manifest secret, on a variable secret, on either job
OwnerFailures ==
    {"failed to create with-ops manifest secret for BOSHDeployment '"
         \o NamespacedName \o "': failed to set ownerReference for Secret '"
         \o ManifestSecretName \o "': " \o CollabError,
     "failed to create desired manifest qJob for BOSHDeployment '"
         \o NamespacedName \o "': failed to set ownerReference for QuarksJob '"
         \o VariableInterpolationJobName \o "': " \o CollabError,
     "failed to create instance group manifest qJob for BOSHDeployment '"
         \o NamespacedName \o "': failed to set ownerReference for QuarksJob '"
         \o InstanceGroupManifestJobName \o "': " \o CollabError}
    \cup {"failed to create quarks secrets for BOSH manifest '" \o DeploymentName
          \o "': failed to set ownership for " \o VariableSecretName(VariableNames[i])
          \o ": " \o CollabError : i \in DOMAIN VariableNames}

\* C13: after every step each object in the store has the owner of its kind:
\* the deployment for the manifest secret and the jobs, the manifest secret
\* for a variable secret, and the manifest secret then exists and is owned by
\* the deployment; the step in which setting an owner reference fails makes no
\* call and leaves the store as it was
C13_Ownership ==
    [][ /\ \A k \in DOMAIN store' :
               /\ store'[k].owner # ""
               /\ store'[k].owner = OwnerOfKind(store'[k].kind)
               /\ store'[k].owner = ManifestSecretName =>
                      /\ ManifestSecretName \in DOMAIN store'
                      /\ store'[ManifestSecretName].owner = DeploymentName
        /\ (pc # "idle" /\ pc' = "idle" /\ result'.msg \in OwnerFailures) =>
               /\ store' = store
               /\ calls' = calls
               /\ result'.err
      ]_vars

\* C13 witness: the owner reference of the variable secret could not be set;
\* the manifest secret written before is in the store, owned by the
\* deployment, and the variable secret is not
C13_Witness ==
    /\ pc = "idle"
    /\ result.err
    /\ result.msg \in OwnerFailures
    /\ pre.store = EmptyMap
    /\ DOMAIN store = {ManifestSecretName}
    /\ store[ManifestSecretName].owner = DeploymentName
    /\ LastCall = Call("CreateOrUpdate", ManifestSecretName, "created")
    /\ resolved.Variables # <<>>

\* the manifest-with-ops secrets of the deployment in the store
ManifestSecrets ==
    {k \in DOMAIN store : /\ store[k].kind = KindManifestSecret
                          /\ store[k].owner = DeploymentName}

\* C14 as stated: at any time exactly one manifest-with-ops secret of the
\* deployment exists
C14_ExactlyOneManifestSecret == Cardinality(ManifestSecrets) = 1

\* C14 amended: at any time at most one manifest-with-ops secret of the
\* deployment exists, under the one name made from the deployment name;
\* there is exactly one from the first pass that synchronized it on: in the
\* rest of that pass, in every later pass, and whenever a lastReconcileTime
\* is stored
C14_AtMostOneManifestSecret ==
    /\ ManifestSecrets \subseteq {ManifestSecretName}
    /\ (\E i \in DOMAIN calls :
            /\ calls[i].op = "CreateOrUpdate"
            /\ calls[i].obj = ManifestSecretName
            /\ calls[i].res # "error") => ManifestSecrets = {ManifestSecretName}
    /\ ManifestSecretName \in DOMAIN pre.store => ManifestSecrets = {ManifestSecretName}
    /\ bdpl.LastReconcile # NilTime => ManifestSecrets = {ManifestSecretName}

\* C14 witness: after a pass that wrote the manifest secret, a later pass
\* found it unchanged and was aborted at the next step; the one secret is there
C14_Witness ==
    /\ pc = "idle"
    /\ result.err
    /\ ManifestSecretName \in DOMAIN pre.store
    /\ LastCall = Call("CreateOrUpdate", ManifestSecretName, "unchanged")
    /\ ManifestSecrets = {ManifestSecretName}

\* the positions of a pass inside listLinkInfos
LinkPcs == {"listLinkInfos", "listSecrets", "listServices", "matchSecrets", "listPods"}

\* the objects of kind kind in the store st
OfKind(st, kind) == {k \in DOMAIN st : st[k].kind = kind}

\* C15: when no provider is missing, listLinkInfos lists no secret, service
\* or pod, returns no link infos and no error, and leaves the manifest as it
\* was; a pass that then returns success has set no quarks_links property
\* and has synchronized the one manifest secret and the two jobs
C15_NoMissingProviders ==
    [][ /\ (pc \in LinkPcs /\ manifest.missing = {}) =>
               /\ calls' = calls
               /\ manifest' = manifest
               /\ link'.linkInfos = <<>>
               /\ link'.quarksLinks = EmptyMap
               /\ link'.err = ""
               /\ pc' \in {"listPods", "createManifestWithOps"}
        /\ (pc = "updateStatus" /\ pc' = "idle" /\ manifest.missing = {}) =>
               /\ ~result'.err
               /\ \A i \in DOMAIN calls' : calls'[i].op # "List"
               /\ "quarks_links" \notin DOMAIN manifest.Properties.map
               /\ store'[ManifestSecretName].data.Properties = resolved.Properties
               /\ OfKind(store', KindManifestSecret) = {ManifestSecretName}
               /\ OfKind(store', KindQuarksJob) =
                      {VariableInterpolationJobName, InstanceGroupManifestJobName}
      ]_vars

\* C15 witness: the first pass of a deployment with no missing provider and
\* no variable returned success having created the secret and the two jobs
C15_Witness ==
    /\ pc = "idle"
    /\ manifest # NoManifest
    /\ manifest.missing = {}
    /\ pre.store = EmptyMap
    /\ ~result.err
    /\ calls = <<Call("Get", DeploymentName, "ok"),
                 Call("CreateOrUpdate", ManifestSecretName, "created"),
                 Call("CreateOrUpdate", VariableInterpolationJobName, "created"),
                 Call("CreateOrUpdate", InstanceGroupManifestJobName, "created"),
                 Call("StatusUpdate", DeploymentName, "ok")>>
    /\ DOMAIN store = {ManifestSecretName, VariableInterpolationJobName,
                       InstanceGroupManifestJobName}

\* the writes a step issued that the cluster refused
FailedWrites ==
    {i \in (DOMAIN calls') \ (DOMAIN calls) :
        /\ calls'[i].op \in {"CreateOrUpdate", "StatusUpdate"}
        /\ calls'[i].res = "error"}

\* C16 as stated: every write of the pipeline the cluster refuses ends the
\* pass with an error returned to the dispatcher
C16_EveryFailedWriteReturned ==
    [][ FailedWrites # {} => (pc' = "idle" /\ result'.err) ]_vars

\* C16 amended: every create-or-update and every status write of a variable
\* secret the cluster refuses ends the pass with an error returned to the
\* dispatcher; the refused status update of the deployment alone is
\* swallowed, the pass returning success without a requeue
C16_FailedWriteReturnedButStatus ==
    [][ \A i \in FailedWrites :
            IF calls'[i] = Call("StatusUpdate", DeploymentName, "error")
            THEN pc' = "idle" /\ result' = ResultDone
            ELSE pc' = "idle" /\ result'.err
      ]_vars

\* C16 witness: the manifest secret written by an earlier pass was refused
\* on its update and the pass returned the error
C16_Witness ==
    /\ pc = "idle"
    /\ ManifestSecretName \in DOMAIN pre.store
    /\ LastCall = Call("CreateOrUpdate", ManifestSecretName, "error")
    /\ result.err

\* the names of the variable secrets
VariableSecretNames == {VariableSecretName(VariableNames[i]) : i \in DOMAIN VariableNames}

\* the place of a recorded call among the mutating operations of a pass;
\* 0 for a read
MutationRank(c) ==
    CASE c.op = "CreateOrUpdate" /\ c.obj = ManifestSecretName -> 1
      [] c.op \in {"CreateOrUpdate", "StatusUpdate"} /\ c.obj \in VariableSecretNames -> 2
      [] c.op = "CreateOrUpdate" /\ c.obj = VariableInterpolationJobName -> 3
      [] c.op = "CreateOrUpdate" /\ c.obj = InstanceGroupManifestJobName -> 4
      [] c.op = "StatusUpdate" /\ c.obj = DeploymentName -> 5
      [] OTHER -> 0

\* the places of the mutating operations of the pass, in the order issued
MutationOrder ==
    SelectSeq([i \in DOMAIN calls |-> MutationRank(calls[i])], LAMBDA r : r > 0)

\* C18: the mutating operations of a pass are issued in the order manifest
\* secret, variable secrets, variable-interpolation job, instance-group-
\* manifest job, status update, each of them but the variable secrets at most
\* once; variable secrets are synchronized only when the manifest declares a
\* variable; the instance-group-manifest job is synchronized only after the
\* variable-interpolation job was, successfully, in the same pass
C18_MutationOrder ==
    /\ \A i, j \in DOMAIN MutationOrder :
           i < j => \/ MutationOrder[i] < MutationOrder[j]
                    \/ MutationOrder[i] = 2 /\ MutationOrder[j] = 2
    /\ (\E i \in DOMAIN calls : MutationRank(calls[i]) = 2) =>
           (manifest # NoManifest /\ manifest.Variables # <<>>)
    /\ \A j \in DOMAIN calls :
           MutationRank(calls[j]) = 4 =>
               \E i \in 1..(j - 1) : /\ MutationRank(calls[i]) = 3
                                     /\ calls[i].res # "error"
    /\ \A j \in DOMAIN calls :
           MutationRank(calls[j]) = 5 => j = Len(calls)

\* C18 witness: a pass issued all five kinds of mutation, in their order
C18_Witness ==
    /\ pc = "idle"
    /\ MutationOrder = <<1, 2, 3, 4, 5>>

(***************************************************************************)
(* The deployment with one explicit variable, edited by its user, beside   *)
(* the controller that generates the values of the variable secrets.       *)
(***************************************************************************)
\* the user changes the type of the declared variable; the cluster counts the
\* generation of the resource.  Reconcile reads the manifest once a pass, so
\* the edits are taken between passes.
EditDeployment ==
    /\ pc = "idle"
    /\ bdpl.exists
    /\ bdpl.Generation < MaxGeneration
    /\ resolved.Variables # <<>>
    /\ \E t \in Range(VariableTypes) \ {resolved.Variables[1].Type} :
           resolved' = [resolved EXCEPT !.Variables[1].Type = t]
    /\ bdpl' = [bdpl EXCEPT !.Generation = @ + 1]
    /\ UNCHANGED <<cfg, secrets, services, pods, linkVars, now, store, pc, instance,
                   manifest, variables, result, calls, pre, ctx>>

\* the variable-generation controller finds a QuarksSecret whose status says
\* it is not generated, makes the secret from its spec and sets the status
GenerateSecret ==
    /\ \E name \in DOMAIN store :
           /\ store[name].kind = KindQuarksSecret
           /\ ~store[name].generated
           /\ store' = MapPut([store EXCEPT ![name].generated = TRUE],
                              GeneratedSecretName(name),
                              Object(KindGeneratedSecret, name, store[name].data))
    /\ UNCHANGED <<clusterVars, linkVars, now, bdpl, pc, instance, manifest,
                   variables, result, calls, pre, ctx>>

\* a new deployment that declares the variable, in the base namespace
InitVariables ==
    InitWith({1}, 0,
             {m \in Manifests({{"nats-provider"}}) :
                 ~m.Properties.nil /\ m.Variables = DeclaredVariables(Len(VariableNames))},
             {BaseSecrets}, {BaseServices}, {BasePods})

NextVariables ==
    \/ Next
    \/ EditDeployment
    \/ GenerateSecret

SpecVariables == InitVariables /\ [][NextVariables]_vars

\* C19: an iteration of createQuarksSecrets writes the status of the variable
\* secret, with Generated = false, exactly when its create-or-update
\* reported "updated"; after "created" or "unchanged" it makes no status
\* write and leaves the stored status as it is; when the status write fails
\* the pass returns an error
C19_StatusResetIffUpdated ==
    [][ pc = "createQuarksSecrets" /\ calls' # calls =>
          LET name == Head(variables).Name
              new == SubSeq(calls', Len(calls) + 1, Len(calls'))
          IN  /\ \A i \in DOMAIN new : new[i].obj = name
              /\ new[1].op = "CreateOrUpdate"
              /\ (Len(new) = 2) = (new[1].res = "updated")
              /\ Len(new) = 2 =>
                     /\ new[2].op = "StatusUpdate"
                     /\ new[2].res = "ok" =>
                            /\ ~store'[name].generated
                            /\ pc' # "idle"
                     /\ new[2].res # "ok" => (pc' = "idle" /\ result'.err)
              /\ new[1].res = "unchanged" => store' = store
              /\ new[1].res = "created" =>
                     (name \notin DOMAIN store /\ ~store'[name].generated)
      ]_vars

\* C19 witness: the spec of a variable secret that had been generated was
\* updated, and its status reset
C19_Witness ==
    /\ pc \in {"variableInterpolationJob", "createQuarksSecrets"}
    /\ Len(calls) >= 2
    /\ calls[Len(calls) - 1] =
           Call("CreateOrUpdate", VariableSecretName(VariableNames[1]), "updated")
    /\ LastCall = Call("StatusUpdate", VariableSecretName(VariableNames[1]), "ok")
    /\ pre.store[VariableSecretName(VariableNames[1])].generated
    /\ ~store[VariableSecretName(VariableNames[1])].generated

\* the variable secrets whose generated secret was made from another spec
\* than the stored one while the status says generated
Stale(st) ==
    {name \in OfKind(st, KindQuarksSecret) :
        /\ st[name].generated
        /\ GeneratedSecretName(name) \in DOMAIN st
        /\ st[GeneratedSecretName(name)].data # st[name].data}

\* C20: when a pass has run to its end and Reconcile returns success, no
\* variable secret whose spec a pass changed after its values were generated
\* still has the status generated: each has been reset since the change
C20_ResetBeforeSuccess ==
    [][ (pc = "updateStatus" /\ pc' = "idle" /\ ~result'.err) => Stale(store') = {} ]_vars

(***************************************************************************)
(* The namespace changing under the resolver, the cluster and the          *)
(* collaborators answering every call, and the dispatcher re-invoking      *)
(* Reconcile after each error.                                             *)
(***************************************************************************)
\* the provider's secret, its service or its pods appear or disappear, at any
\* moment of a pass
Churn ==
    /\ \/ /\ secrets' \in {BaseSecrets, <<>>} \ {secrets}
          /\ UNCHANGED <<services, pods>>
       \/ /\ services' \in {BaseServices, <<>>} \ {services}
          /\ UNCHANGED <<secrets, pods>>
       \/ /\ pods' \in {BasePods, <<>>} \ {pods}
          /\ UNCHANGED <<secrets, services>>
    /\ UNCHANGED <<cfg, resolved, linkVars, now, bdpl, store, pc, instance, manifest,
                   variables, result, calls, pre, ctx>>

\* the step met no failure of the cluster API or of a collaborator: no call
\* was refused, and an error is returned from listLinkInfos only
NoFault ==
    /\ \A i \in DOMAIN calls' : calls'[i].res # "error"
    /\ result'.err => pc \in LinkPcs

\* a step of a pass in which every call is answered
FaultlessStep ==
    /\ \/ GetInstance
       \/ MeltdownCheck
       \/ ResolveManifest
       \/ ListLinkInfosBegin
       \/ ListSecrets
       \/ ListServices
       \/ MatchSecrets
       \/ ListPods
       \/ ListLinkInfosEnd
       \/ CreateManifestWithOps
       \/ ConvertVariables
       \/ CreateQuarksSecret
       \/ VariableInterpolationJob
       \/ InstanceGroupManifestJob
       \/ UpdateStatus
    /\ NoFault

\* the dispatcher re-invokes Reconcile after an error
Redispatch == Dispatch /\ result.err

\* a new deployment that consumes "nats-provider", in a namespace where each
\* of the provider's secret, service and pods is there or not
InitChurn ==
    InitWith({1}, 0,
             {m \in Manifests({{"nats-provider"}}) : ~m.Properties.nil},
             {BaseSecrets, <<>>}, {BaseServices, <<>>}, {BasePods, <<>>})

NextChurn ==
    \/ Dispatch
    \/ FaultlessStep
    \/ Churn
    \/ Tick

\* a started pass runs on, and the dispatcher retries after an error
SpecChurn ==
    /\ InitChurn
    /\ [][NextChurn]_vars
    /\ WF_vars(FaultlessStep)
    /\ WF_vars(Redispatch)

\* every missing provider of the manifest is resolvable in the namespace: a
\* secret exports it, and each service annotated with that secret selects at
\* least one pod, all with an address
Resolvable ==
    \A p \in resolved.missing :
        /\ Naming(secrets, p) # {}
        /\ \A i \in Naming(secrets, p) :
               \A j \in Serving(services, secrets[i].name) :
                   LET ps == Selected(services[j].selector) IN
                   ps # <<>> /\ FirstEmptyIP(ps) = 0

\* the pass ended inside listLinkInfos: the manifest was resolved and no
\* derived object was synchronized
EndedInLinks ==
    /\ pc = "idle"
    /\ result.returned
    /\ manifest # NoManifest
    /\ \A i \in DOMAIN calls : calls[i].op # "CreateOrUpdate"

\* the names of the derived objects of the deployment as it is declared
Derived ==
    {ManifestSecretName, VariableInterpolationJobName, InstanceGroupManifestJobName}
        \cup {VariableSecretName(resolved.Variables[i].Name) : i \in DOMAIN resolved.Variables}

\* the pass returned success having synchronized every derived object
Synced ==
    /\ pc = "idle"
    /\ result = ResultDone
    /\ Derived \subseteq DOMAIN store
    /\ \A n \in Derived :
           \E i \in DOMAIN calls : /\ calls[i].op = "CreateOrUpdate"
                                   /\ calls[i].obj = n
                                   /\ calls[i].res # "error"

\* C17: if from some moment on the namespace no longer changes and is in a
\* state where every missing provider is resolvable, then every pass that
\* ended inside listLinkInfos is followed by a pass that returns success
\* having synchronized every derived object
C17_EventualSuccess ==
    (<>[]Resolvable /\ <>[][UNCHANGED <<secrets, services, pods>>]_vars)
        => (EndedInLinks ~> Synced)

\* C17 witness: a pass listed the secrets with the provider's secret, then
\* found no pod because the pods were away between the listings, and failed;
\* the namespace now resolves the provider
C17_Witness ==
    /\ EndedInLinks
    /\ result.err
    /\ secretList = BaseSecrets
    /\ serviceList = BaseServices
    /\ LastCall = Call("List", "pods", "ok")
    /\ secrets = BaseSecrets /\ services = BaseServices /\ pods = BasePods
    /\ Resolvable

\* the pods of the namespace the service recorded for the link q selects
PodsOf(q) == MatchingLabels(pods, svcRecords[q].selector)

\* the pending links with a service record whose service selects no pod
Unbacked == {q \in pending \cap DOMAIN svcRecords : PodsOf(q) = <<>>}

\* the pending links with a service record one of whose pods has no address
Unaddressed ==
    {q \in pending \cap DOMAIN svcRecords : \E k \in DOMAIN PodsOf(q) : PodsOf(q)[k].ip = ""}

\* the error of Reconcile for the pod p without an address
EmptyIPError(p) ==
    LinkError("empty ip of kube native component: '" \o Namespace \o "/" \o p.name \o "'")

\* the error of Reconcile for a service that selects no pod
EmptyPodsError ==
    LinkError("Failed to get link pods for '" \o DeploymentName
              \o "': got an empty list of pods")

\* C21: while a pending link with a service record has no pod, or a pod
\* without an address, the pass does not get past the pod listings, and the
\* link leaves the pending ones only by failing the pass; a pass that fails
\* on an answered pod listing fails with the empty-list error of a link
\* without pods or with the error naming the first listed pod without an
\* address, its manifest without quarks_links and nothing written
C21_PodFailures ==
    [][ pc = "listPods" =>
          /\ \A q \in Unbacked \cup Unaddressed :
                 /\ pc' \in {"listPods", "idle"}
                 /\ q \in pending' \/ pc' = "idle"
          /\ (pc' = "idle" /\ calls' = Append(calls, Call("List", "pods", "ok"))) =>
                 /\ \/ Unbacked # {} /\ result' = EmptyPodsError
                    \/ \E q \in Unaddressed :
                           \E k \in DOMAIN PodsOf(q) :
                               /\ PodsOf(q)[k].ip = ""
                               /\ \A h \in 1..(k - 1) : PodsOf(q)[h].ip # ""
                               /\ result' = EmptyIPError(PodsOf(q)[k])
                 /\ manifest' = resolved
                 /\ "quarks_links" \notin DOMAIN manifest'.Properties.map
                 /\ store' = pre.store
                 /\ \A i \in DOMAIN calls' : calls'[i].op # "CreateOrUpdate"
      ]_vars

\* C21 witness: of the two pods of the provider's service the first has an
\* address and the second has none; the pass failed naming the second
C21_Witness ==
    /\ pc = "idle"
    /\ Len(pods) = 2
    /\ pods[1].ip # ""
    /\ pods[2].ip = ""
    /\ result = EmptyIPError(pods[2])
    /\ LastCall = Call("List", "pods", "ok")
    /\ store = EmptyMap

(***************************************************************************)
(* The deadline of the context of a pass.  A call takes any time, so the   *)
(* deadline may expire at any position of the pass; a call made with an    *)
(* expired context returns its error.                                      *)
(***************************************************************************)
\* the deadline of the context made at the start of the pass expires; the
\* deferred cancel releases the context when Reconcile returns
DeadlineExpires ==
    /\ pc # "idle"
    /\ ~ctx.expired
    /\ ctx' = [ctx EXCEPT !.expired = TRUE]
    /\ UNCHANGED <<clusterVars, linkVars, now, bdpl, store, pc, instance, manifest,
                   variables, result, calls, pre>>

\* the calls Reconcile makes with the context of the pass: the fetch, every
\* create-or-update and the status writes; the three listings are made with
\* the context of the reconciler
WithPassContext(c) == c.op \in {"Get", "CreateOrUpdate", "StatusUpdate"}

\* a call made with the context of the pass after its deadline fails
Honoured ==
    ctx.expired =>
        \A i \in (DOMAIN calls') \ (DOMAIN calls) :
            WithPassContext(calls'[i]) => calls'[i].res = "error"

\* a step of a pass under the deadline
DeadlineStep ==
    /\ \/ GetInstance
       \/ MeltdownCheck
       \/ ResolveManifest
       \/ ListLinkInfosBegin
       \/ ListSecrets
       \/ ListServices
       \/ MatchSecrets
       \/ ListPods
       \/ ListLinkInfosEnd
       \/ CreateManifestWithOps
       \/ ConvertVariables
       \/ CreateQuarksSecret
       \/ VariableInterpolationJob
       \/ InstanceGroupManifestJob
       \/ UpdateStatus
    /\ Honoured

\* a new deployment that consumes "nats-provider" and declares the variable,
\* in the base namespace
InitDeadline ==
    InitWith({1}, 0,
             {m \in Manifests({{"nats-provider"}}) :
                 ~m.Properties.nil /\ m.Variables = DeclaredVariables(Len(VariableNames))},
             {BaseSecrets}, {BaseServices}, {BasePods})

NextDeadline ==
    \/ Dispatch
    \/ DeadlineStep
    \/ DeadlineExpires
    \/ Tick

SpecDeadline == InitDeadline /\ [][NextDeadline]_vars

\* C22: a step that makes a cluster store call when the deadline of the pass
\* has expired gets the error of every call it makes and ends the pass with
\* an error returned
C22_DeadlineAbortsEveryCall ==
    [][ (ctx.expired /\ pc # "idle" /\ calls' # calls) =>
            /\ \A i \in (DOMAIN calls') \ (DOMAIN calls) : calls'[i].res = "error"
            /\ pc' = "idle"
            /\ result'.err
      ]_vars

\* the pending links no service of this deployment is annotated with
Unserved == {q \in pending : Serving(services, q) = {}}

\* the provider type the secret named q exports
TypeOf(q) == secrets[CHOOSE i \in DOMAIN secrets : secrets[i].name = q].ann.ptype

\* C23: a pending link with no service annotated with its secret's name
\* leaves the pending ones with no call made, no failure and the link as it
\* was; while no pending link has a service the resolution makes no call and
\* fails only for missing providers; when the resolution succeeds the
\* quarks_links entry of such a link has the type of its secret, an empty
\* address and no instances
C23_LinkWithoutService ==
    [][ pc = "listPods" =>
          /\ \A q \in Unserved :
                 q \notin pending' =>
                     /\ calls' = calls
                     /\ link' = link
                     /\ pc' = "listPods"
                     /\ result' = result
          /\ (pending # {} /\ Unserved = pending) =>
                 /\ calls' = calls
                 /\ pc' = "listPods"
          /\ Unserved = pending =>
                 /\ calls' = calls
                 /\ pc' = "idle" => Unmatched # {}
          /\ pc' = "createManifestWithOps" =>
                 \A q \in DOMAIN link.quarksLinks :
                     Serving(services, q) = {} =>
                         /\ TypeOf(q) # ""
                         /\ manifest'.Properties.map["quarks_links"][q]
                                = [Type |-> TypeOf(q), Address |-> "", Instances |-> <<>>]
      ]_vars

\* C23 witness: the namespace has a service, of another secret; the secret
\* that exports the provider has none, and the resolution succeeded without
\* a pod listing, the link holding the type alone
C23_Witness ==
    /\ pc = "createManifestWithOps"
    /\ services # <<>>
    /\ \E q \in DOMAIN link.quarksLinks :
           /\ Serving(services, q) = {}
           /\ manifest.Properties.map["quarks_links"][q]
                  = [Type |-> TypeOf(q), Address |-> "", Instances |-> <<>>]
    /\ \A i \in DOMAIN calls : calls[i] # Call("List", "pods", "ok")

\* the keys of quarks_links in the properties of the manifest, none when the
\* property is not set
LinkKeys ==
    IF "quarks_links" \in DOMAIN manifest.Properties.map
    THEN DOMAIN manifest.Properties.map["quarks_links"]
    ELSE {}

\* C24: when link resolution has returned without error, the link infos hold
\* one entry for each missing provider of the manifest and none for another
\* provider, each entry that of a listed secret of this deployment, and the
\* keys of quarks_links are the secret names of the entries with a type
C24_LinkInfosExact ==
    pc = "createManifestWithOps" =>
        /\ \A p \in resolved.missing :
               Cardinality({i \in DOMAIN link.linkInfos :
                               link.linkInfos[i].ProviderName = p}) = 1
        /\ \A i \in DOMAIN link.linkInfos :
               /\ link.linkInfos[i].ProviderName \in resolved.missing
               /\ \E k \in Naming(secrets, link.linkInfos[i].ProviderName) :
                      /\ secrets[k].name = link.linkInfos[i].SecretName
                      /\ secrets[k].ann.ptype = link.linkInfos[i].ProviderType
        /\ LinkKeys = {link.linkInfos[i].SecretName :
                          i \in {k \in DOMAIN link.linkInfos :
                                    link.linkInfos[k].ProviderType # ""}}

\* C24 witness: providers A and nats-provider are missing; three secrets of
\* this deployment name A, nats-provider and B, that of A without a type; the
\* resolution returned two link infos and one link
C24_Witness ==
    /\ pc = "createManifestWithOps"
    /\ resolved.missing = {"A", "nats-provider"}
    /\ Naming(secrets, "B") # {}
    /\ Len(link.linkInfos) = 2
    /\ \E i \in DOMAIN link.linkInfos :
           link.linkInfos[i].ProviderName = "A" /\ link.linkInfos[i].ProviderType = ""
    /\ Cardinality(LinkKeys) = 1

====
